---- MODULE Spec2Model ----
(***************************************************************************)
(* PCIe Lane Margining at the Receiver: the protocol engine                *)
(* (pci_lmt/pcie_lane_margining.py, class PcieDeviceLaneMargining), the    *)
(* historical engine (pci_lmt/lib/pci_lmt_lib.py, class PCIe_LMT) and the  *)
(* lane collector (pci_lmt/collector.py, class PcieLmCollector).           *)
(*                                                                         *)
(* Python values: None is the string "None"; a dict is a record; looking   *)
(* up a key a dict does not have raises KeyError, reading an attribute an  *)
(* object does not have raises AttributeError.  A raised exception is the  *)
(* field exc of the execution context; nothing in the program catches it.  *)
(*                                                                         *)
(* An engine operation is an operator from an execution context x          *)
(*   self  the device handle (the fields of the Python object)             *)
(*   ctrl  the Lane Control register of every lane (hardware)              *)
(*   hw    what the Receiver reports (hardware)                            *)
(*   env   how the hardware misbehaves during this operation               *)
(*   io    the accessor calls made so far by this operation                *)
(*   polls, late   the clock since the last start_time = time.time()       *)
(*   exc   the exception being raised, or None                             *)
(* to a pair [x |-> the context afterwards, ret |-> the returned dict].    *)
(***************************************************************************)
EXTENDS Integers, Sequences, FiniteSets, TLC

\* Status reads a polling loop can make before time.time() - start_time
\* exceeds TIMEOUT.
MaxPolls == 2

\* The latest accessor call of one operation (counted from 0) that the
\* hardware can disturb.
MaxAt == 5

None == "None"

Truthy(v) == v # None /\ v # ""

Bits(v, lo, w) == (v \div (2 ^ lo)) % (2 ^ w)

\* A 16-bit Lane Control / Lane Status value from its fields.
Word(rn, mt, pl) == rn + 8 * mt + 256 * pl

Raise(x, e) == [x EXCEPT !.exc = e]

\* Truth of a Python int used as a condition.
Truthy2(n) == n # 0

\* v under the name the operator K gives it: K(v).
Bind(v, K(_)) == K(v)

\* 1 << 6 | steps
BitOr64(steps) == steps + (1 - Bits(steps, 6, 1)) * 64

----------------------------------------------------------------------------
(* The hardware behind device.read / device.write.                         *)

\* The payload a Receiver reports for the Report command with payload pl.
ReportPayload(hw, pl) ==
    CASE pl = 136 -> hw.caps
      [] pl = 143 -> hw.sample_count
      [] OTHER -> hw.raw

\* The Lane Status value of a Receiver that has taken the command in the Lane
\* Control register of the lane.
ReceiverStatus(x, lane) ==
    LET c == x.ctrl[lane]
        rn == Bits(c, 0, 3)
        mt == Bits(c, 3, 3)
        pl == Bits(c, 8, 8)
    IN  CASE mt = 7 -> Word(0, 7, 156)
          [] mt = 1 -> Word(rn, 1, ReportPayload(x.hw, pl))
          [] mt = 2 -> Word(rn, 2, pl)
          [] mt = 3 -> Word(rn, 3, x.hw.step_resp)
          [] mt = 4 -> Word(rn, 4, x.hw.step_resp)
          [] OTHER -> Word(rn, mt, 0)

\* The register an address belongs to.
LaneOf(x, address) == (address - x.self.cap_lmt_offset - 8) \div 4
IsStatusAddr(x, address) == (address - x.self.cap_lmt_offset) % 4 = 2

\* Whether the disturbance of this operation hits the accessor call being made.
Disturbed(x, address) ==
    LET k == Len(x.io) IN
    /\ x.env.on
    /\ \/ k = x.env.at
       \/ x.env.sticky /\ k > x.env.at /\ IsStatusAddr(x, address)

\* device.read(address, width=16): -1 on failure.
read(x, address) ==
    LET lane == LaneOf(x, address)
        st == IsStatusAddr(x, address)
        hit == Disturbed(x, address)
        data == IF hit THEN x.env.data
                ELSE IF st THEN ReceiverStatus(x, lane) ELSE x.ctrl[lane]
        polls == IF st THEN x.polls + 1 ELSE x.polls
    IN  [x |-> [x EXCEPT !.io = Append(@, [op |-> "read", address |-> address, data |-> data]),
                         !.polls = polls,
                         !.late = IF st THEN (hit /\ x.env.late) \/ polls > MaxPolls ELSE @],
         data |-> data]

\* device.write(address, data, width=16): -1 on failure.
write(x, address, data) ==
    LET lane == LaneOf(x, address)
        fail == Disturbed(x, address) /\ x.env.data = -1
    IN  [x |-> [x EXCEPT !.io = Append(@, [op |-> "write", address |-> address, data |-> data]),
                         !.ctrl[lane] = IF fail THEN @ ELSE data],
         err |-> IF fail THEN -1 ELSE 0]

\* start_time = time.time()
start_time(x) == [x EXCEPT !.polls = 0, !.late = FALSE]

\* time.time() - start_time > TIMEOUT
TimedOut(x) == x.late

----------------------------------------------------------------------------
(* pcie_lane_margining.py                                                  *)

\* The decorator without its test of lane_errors[lane].
handle_lane_status_without_lane_test(x, lane, r) ==
    IF x.exc # None THEN [x |-> x, ret |-> [error |-> None]]
    ELSE IF Truthy(x.self.device_error) THEN [x |-> x, ret |-> [error |-> x.self.device_error]]
    ELSE IF ~x.self.has_lane_errors THEN [x |-> Raise(x, "AttributeError"), ret |-> [error |-> None]]
    ELSE IF r.x.exc # None THEN r
    ELSE IF Truthy(r.ret.error)
         THEN [x |-> [r.x EXCEPT !.self.lane_errors[lane] = r.ret.error,
                             !.faults = Append(@, [lane |-> lane, was |-> r.x.self.lane_errors[lane],
                                                   error |-> r.ret.error])],
               ret |-> r.ret]
         ELSE r

\* The decorator without its test of device_error.
handle_lane_status_without_device_test(x, lane, r) ==
    IF x.exc # None THEN [x |-> x, ret |-> [error |-> None]]
    ELSE IF ~x.self.has_lane_errors THEN [x |-> Raise(x, "AttributeError"), ret |-> [error |-> None]]
    ELSE IF Truthy(x.self.lane_errors[lane]) THEN [x |-> x, ret |-> [error |-> x.self.lane_errors[lane]]]
    ELSE IF r.x.exc # None THEN r
    ELSE IF Truthy(r.ret.error)
         THEN [x |-> [r.x EXCEPT !.self.lane_errors[lane] = r.ret.error,
                             !.faults = Append(@, [lane |-> lane, was |-> r.x.self.lane_errors[lane],
                                                   error |-> r.ret.error])],
               ret |-> r.ret]
         ELSE r

\* The decorator of pcie_lane_margining.py: r is the outcome of
\* method(self, lane, *args) in x.
handle_lane_status(x, lane, r) ==
    IF x.exc # None THEN [x |-> x, ret |-> [error |-> None]]
    ELSE IF Truthy(x.self.device_error) THEN [x |-> x, ret |-> [error |-> x.self.device_error]]
    ELSE IF ~x.self.has_lane_errors THEN [x |-> Raise(x, "AttributeError"), ret |-> [error |-> None]]
    ELSE IF Truthy(x.self.lane_errors[lane]) THEN [x |-> x, ret |-> [error |-> x.self.lane_errors[lane]]]
    ELSE IF r.x.exc # None THEN r
    ELSE IF Truthy(r.ret.error)
         THEN [x |-> [r.x EXCEPT !.self.lane_errors[lane] = r.ret.error,
                             !.faults = Append(@, [lane |-> lane, was |-> r.x.self.lane_errors[lane],
                                                   error |-> r.ret.error])],
               ret |-> r.ret]
         ELSE r

\* The decorator of lib/pci_lmt_lib.py, which tests "is not None".
lib_handle_lane_status(x, lane, r) ==
    IF x.exc # None THEN [x |-> x, ret |-> [error |-> None]]
    ELSE IF x.self.device_error # None THEN [x |-> x, ret |-> [error |-> x.self.device_error]]
    ELSE IF ~x.self.has_lane_errors THEN [x |-> Raise(x, "AttributeError"), ret |-> [error |-> None]]
    ELSE IF x.self.lane_errors[lane] # None THEN [x |-> x, ret |-> [error |-> x.self.lane_errors[lane]]]
    ELSE IF r.x.exc # None THEN r
    ELSE IF r.ret.error # None
         THEN [x |-> [r.x EXCEPT !.self.lane_errors[lane] = r.ret.error,
                             !.faults = Append(@, [lane |-> lane, was |-> r.x.self.lane_errors[lane],
                                                   error |-> r.ret.error])],
               ret |-> r.ret]
         ELSE r

\* @handle_lane_status, as the module of the handle's class defines it.
\* The operations from write_MarginingLaneControlRegister to ClearErrorLog
\* have the same text in both classes and are written once below.
decorator(x, lane, r) ==
    IF x.self.cls = "PCIe_LMT" THEN lib_handle_lane_status(x, lane, r)
    ELSE handle_lane_status(x, lane, r)

\* The write without the reserved bit 7 read back from the register.
write_margining_lane_control_register_clearing_bit_7(x, lane, receiver_number, margin_type, usage_model, margin_payload) ==
    Bind(read(x, x.self.cap_lmt_offset + 8 + lane * 4), LAMBDA rd :
      IF rd.data = -1
      THEN [x |-> rd.x, ret |-> [error |-> "ERROR: write_MarginingLaneControlRegister - read"]]
      ELSE Bind(write(rd.x, x.self.cap_lmt_offset + 8 + lane * 4,
                      (receiver_number % 8)
                      + (margin_type % 8) * 8
                      + (usage_model % 2) * 64
                      + (margin_payload % 256) * 256), LAMBDA wr :
             IF wr.err = -1
             THEN [x |-> wr.x, ret |-> [error |-> "ERROR: write_MarginingLaneControlRegister - write"]]
             ELSE [x |-> wr.x, ret |-> [error |-> None]]))

write_margining_lane_control_register_m(x, lane, receiver_number, margin_type, usage_model, margin_payload) ==
    Bind(read(x, x.self.cap_lmt_offset + 8 + lane * 4), LAMBDA rd :
      IF rd.data = -1
      THEN [x |-> rd.x, ret |-> [error |-> "ERROR: write_MarginingLaneControlRegister - read"]]
      ELSE Bind(write(rd.x, x.self.cap_lmt_offset + 8 + lane * 4,
                      Bits(rd.data, 7, 1) * 128
                      + (receiver_number % 8)
                      + (margin_type % 8) * 8
                      + (usage_model % 2) * 64
                      + (margin_payload % 256) * 256), LAMBDA wr :
             IF wr.err = -1
             THEN [x |-> wr.x, ret |-> [error |-> "ERROR: write_MarginingLaneControlRegister - write"]]
             ELSE [x |-> wr.x, ret |-> [error |-> None]]))

write_margining_lane_control_register(x, lane, receiver_number, margin_type, usage_model, margin_payload) ==
    decorator(x, lane,
        write_margining_lane_control_register_m(x, lane, receiver_number, margin_type, usage_model, margin_payload))

decode_margining_lane_status_register_m(x, lane) ==
    Bind(read(x, x.self.cap_lmt_offset + 10 + lane * 4), LAMBDA rd :
      IF rd.data = -1
      THEN [x |-> rd.x, ret |-> [error |-> "ERROR: decode_MarginingLaneStatusRegister"]]
      ELSE [x |-> rd.x,
            ret |-> [error |-> None,
                     receiver_number_status |-> Bits(rd.data, 0, 3),
                     margin_type_status |-> Bits(rd.data, 3, 3),
                     usage_model_status |-> Bits(rd.data, 6, 1),
                     margin_payload_status |-> Bits(rd.data, 8, 8)]])

decode_margining_lane_status_register(x, lane) ==
    decorator(x, lane, decode_margining_lane_status_register_m(x, lane))

\* ret["margin_type_status"] and the other status keys exist.
HasStatus(ret) == "margin_type_status" \in DOMAIN ret

\* The condition of the polling loop of each operation.
Waiting(cmd, ret) ==
    CASE cmd = "NoCommand" ->
            ret.receiver_number_status # 0 /\ ret.margin_payload_status # 156
      [] cmd = "Report" -> ret.margin_type_status # 1
      [] cmd = "SetErrorCountLimit" -> ret.margin_type_status # 2
      [] cmd = "GotoNormalSettings" ->
            ret.margin_type_status # 2 /\ ret.margin_payload_status # 15
      [] cmd = "ClearErrorLog" ->
            ret.margin_type_status # 2 /\ ret.margin_payload_status # 85
      [] cmd = "StepMarginTiming" -> ret.margin_type_status # 3
      [] cmd = "StepMarginVoltage" -> ret.margin_type_status # 4

\* while <condition on ret>:
\*     ret = self.decode_margining_lane_status_register(lane=lane)
\*     if time.time() - start_time > TIMEOUT:
\*         return {"error": msg}
\* returned tells whether the method has returned from inside the loop.
RECURSIVE poll(_, _, _, _, _)
poll(x, lane, ret, cmd, msg) ==
    IF x.exc # None THEN [x |-> x, ret |-> ret, returned |-> TRUE]
    ELSE IF ~HasStatus(ret) THEN [x |-> Raise(x, "KeyError"), ret |-> ret, returned |-> TRUE]
    ELSE IF ~Waiting(cmd, ret) THEN [x |-> x, ret |-> ret, returned |-> FALSE]
    ELSE Bind(decode_margining_lane_status_register(x, lane), LAMBDA r :
           IF r.x.exc # None THEN [x |-> r.x, ret |-> r.ret, returned |-> TRUE]
           ELSE IF TimedOut(r.x) THEN [x |-> r.x, ret |-> [error |-> msg], returned |-> TRUE]
           ELSE poll(r.x, lane, r.ret, cmd, msg))

no_command_m(x, lane) ==
    Bind(write_margining_lane_control_register(x, lane, 0, 7, 0, 156), LAMBDA w :
    Bind(decode_margining_lane_status_register(w.x, lane), LAMBDA r :
    Bind(poll(start_time(r.x), lane, r.ret, "NoCommand", "ERROR: NoCommand - Timedout"), LAMBDA p :
      IF p.returned THEN [x |-> p.x, ret |-> p.ret]
      ELSE [x |-> p.x, ret |-> [error |-> None]])))

no_command(x, lane) == decorator(x, lane, no_command_m(x, lane))

\* self.no_command(lane); self.write_margining_lane_control_register(...);
\* ret = self.decode_margining_lane_status_register(lane);
\* start_time = time.time(); while ...
command(x, lane, receiver_number, margin_type, margin_payload, cmd, msg) ==
    Bind(no_command(x, lane), LAMBDA n :
    Bind(write_margining_lane_control_register(n.x, lane, receiver_number, margin_type, 0, margin_payload), LAMBDA w :
    Bind(decode_margining_lane_status_register(w.x, lane), LAMBDA r :
      poll(start_time(r.x), lane, r.ret, cmd, msg))))

----------------------------------------------------------------------------
(* The Report commands (margin_type 0x1).                                  *)

\* [*range(0x1, 0x7)] and [*range(0x0, 0x7)]
ReceiverRange1 == 1 .. 6
ReceiverRange0 == 0 .. 6

\* The shape shared by fetch_num_voltage_steps .. fetch_max_lanes: the
\* receiver check, the command, the polling loop, and the masked payload
\* stored in device_info.
report_m(x, lane, receiver_number, margin_payload, name, timedout, field, width) ==
    IF receiver_number \notin ReceiverRange1
    THEN [x |-> x, ret |-> [error |-> "ERROR: " \o name \o " - BAD receiver_number " \o ToString(receiver_number)]]
    ELSE Bind(command(x, lane, receiver_number, 1, margin_payload, "Report",
                      "ERROR: " \o name \o " - " \o timedout), LAMBDA p :
           IF p.returned THEN [x |-> p.x, ret |-> p.ret]
           ELSE [x |-> [p.x EXCEPT !.self.device_info[field] = Bits(p.ret.margin_payload_status, 0, width)],
                 ret |-> [error |-> None]])

fetch_num_voltage_steps(x, lane, receiver_number) ==
    decorator(x, lane,
        report_m(x, lane, receiver_number, 137, "FetchNumVoltageSteps", "Timedout", "num_voltage_steps", 7))

fetch_num_timing_steps(x, lane, receiver_number) ==
    decorator(x, lane,
        report_m(x, lane, receiver_number, 138, "FetchNumTimingSteps", "Timedout", "num_timing_steps", 6))

fetch_max_timing_offset(x, lane, receiver_number) ==
    decorator(x, lane,
        report_m(x, lane, receiver_number, 139, "FetchMaxTimingOffset", "Timedout", "max_timing_offset", 7))

fetch_max_voltage_offset(x, lane, receiver_number) ==
    decorator(x, lane,
        report_m(x, lane, receiver_number, 140, "FetchMaxVoltageOffset", "timedout", "max_voltage_offset", 7))

fetch_sampling_rate_voltage(x, lane, receiver_number) ==
    decorator(x, lane,
        report_m(x, lane, receiver_number, 141, "FetchSamplingRateVoltage", "timedout", "sampling_rate_voltage", 6))

fetch_sampling_rate_timing(x, lane, receiver_number) ==
    decorator(x, lane,
        report_m(x, lane, receiver_number, 142, "FetchSamplingRateTiming", "timedout", "sampling_rate_timing", 6))

fetch_max_lanes(x, lane, receiver_number) ==
    decorator(x, lane,
        report_m(x, lane, receiver_number, 144, "FetchMaxLanes", "timedout", "max_lanes", 5))

\* The largest b in lo .. hi with b^3 <= n, found by halving the interval.
RECURSIVE ICbrtIn(_, _, _)
ICbrtIn(n, lo, hi) ==
    IF lo >= hi THEN lo
    ELSE IF ((lo + hi + 1) \div 2) * ((lo + hi + 1) \div 2) * ((lo + hi + 1) \div 2) <= n
         THEN ICbrtIn(n, (lo + hi + 1) \div 2, hi)
         ELSE ICbrtIn(n, lo, (lo + hi + 1) \div 2 - 1)

\* int(pow(2, sample_count / 3)): the integer part of the cube root of
\* 2^sample_count (the float of the code is exact enough for the integer
\* part on 0 .. 127).  1290 is the largest b whose cube the model's integers hold.
SampleCountBits(sample_count) == ICbrtIn(2 ^ sample_count, 0, 1290)

\* fetch_sample_count taking the whole payload for MSampleCount.
fetch_sample_count_without_mask(x, lane, receiver_number) ==
    IF receiver_number \notin ReceiverRange1
    THEN [x |-> x, ret |-> [error |-> "ERROR: FetchSampleCount - BAD receiver_number " \o ToString(receiver_number)]]
    ELSE Bind(command(x, lane, receiver_number, 1, 143, "Report", "ERROR: FetchSampleCount - timedout"), LAMBDA p :
           IF p.returned THEN [x |-> p.x, ret |-> p.ret]
           ELSE Bind(Bits(p.ret.margin_payload_status, 0, 8), LAMBDA sample_count :
                  [x |-> p.x,
                   ret |-> [error |-> None,
                            sample_count |-> sample_count,
                            sample_count_bits |-> SampleCountBits(sample_count % 128)]]))

fetch_sample_count_m(x, lane, receiver_number) ==
    IF receiver_number \notin ReceiverRange1
    THEN [x |-> x, ret |-> [error |-> "ERROR: FetchSampleCount - BAD receiver_number " \o ToString(receiver_number)]]
    ELSE Bind(command(x, lane, receiver_number, 1, 143, "Report", "ERROR: FetchSampleCount - timedout"), LAMBDA p :
           IF p.returned THEN [x |-> p.x, ret |-> p.ret]
           ELSE Bind(Bits(p.ret.margin_payload_status, 0, 7), LAMBDA sample_count :
                  [x |-> p.x,
                   ret |-> [error |-> None,
                            sample_count |-> sample_count,
                            sample_count_bits |-> SampleCountBits(sample_count)]]))

fetch_sample_count(x, lane, receiver_number) ==
    decorator(x, lane, fetch_sample_count_m(x, lane, receiver_number))

fetch_margin_control_capabilities_m(x, lane, receiver_number) ==
    IF receiver_number \notin ReceiverRange1
    THEN [x |-> x,
          ret |-> [error |-> "ERROR: FetchMarginControlCapabilities - Invalid receiver_number "
                             \o ToString(receiver_number)]]
    ELSE Bind(command(x, lane, receiver_number, 1, 136, "Report",
                      "ERROR: FetchMarginControlCapabilities - Timedout"), LAMBDA p :
           IF p.returned THEN [x |-> p.x, ret |-> p.ret]
           ELSE
           Bind(p.ret.margin_payload_status, LAMBDA pl :
           Bind([p.x EXCEPT !.self.device_info.lmt_capable = TRUE,
                            !.self.device_info.ind_error_sampler = Bits(pl, 4, 1),
                            !.self.device_info.sample_reporting_method = Bits(pl, 3, 1),
                            !.self.device_info.ind_left_right_timing = Bits(pl, 2, 1),
                            !.self.device_info.ind_up_down_voltage = Bits(pl, 1, 1),
                            !.self.device_info.voltage_supported = Bits(pl, 0, 1)], LAMBDA x0 :
           Bind(fetch_num_voltage_steps(x0, lane, receiver_number).x, LAMBDA x1 :
           Bind(fetch_num_timing_steps(x1, lane, receiver_number).x, LAMBDA x2 :
           Bind(fetch_max_timing_offset(x2, lane, receiver_number).x, LAMBDA x3 :
           Bind(fetch_max_voltage_offset(x3, lane, receiver_number).x, LAMBDA x4 :
           Bind(fetch_sampling_rate_voltage(x4, lane, receiver_number).x, LAMBDA x5 :
           Bind(fetch_sampling_rate_timing(x5, lane, receiver_number).x, LAMBDA x6 :
           Bind(fetch_sample_count(x6, lane, receiver_number).x, LAMBDA x7 :
           Bind(fetch_max_lanes(x7, lane, receiver_number).x, LAMBDA x8 :
             [x |-> x8, ret |-> [error |-> None]])))))))))))

fetch_margin_control_capabilities(x, lane, receiver_number) ==
    decorator(x, lane, fetch_margin_control_capabilities_m(x, lane, receiver_number))

----------------------------------------------------------------------------
(* The Set commands (margin_type 0x2).                                     *)

set_error_count_limit_m(x, lane, receiver_number, error_count_limit) ==
    IF receiver_number \notin ReceiverRange1
    THEN [x |-> x, ret |-> [error |-> "ERROR: SetErrorCountLimit - BAD receiver_number " \o ToString(receiver_number)]]
    ELSE Bind(command(x, lane, receiver_number, 2, 192 + (error_count_limit % 64),
                      "SetErrorCountLimit", "ERROR: SetErrorCountLimit - timedout"), LAMBDA p :
           IF p.returned THEN [x |-> p.x, ret |-> p.ret]
           ELSE [x |-> p.x, ret |-> [error |-> None]])

set_error_count_limit(x, lane, receiver_number, error_count_limit) ==
    decorator(x, lane, set_error_count_limit_m(x, lane, receiver_number, error_count_limit))

\* GotoNormalSettings taking every three-bit receiver number.
goto_normal_settings_of_any_receiver(x, lane, receiver_number) ==
    IF receiver_number \notin 0 .. 7
    THEN [x |-> x, ret |-> [error |-> "ERROR: GotoNormalSettings - BAD receiver_number " \o ToString(receiver_number)]]
    ELSE Bind(command(x, lane, receiver_number, 2, 15,
                      "GotoNormalSettings", "ERROR: GotoNormalSettings - timedout"), LAMBDA p :
           IF p.returned THEN [x |-> p.x, ret |-> p.ret]
           ELSE [x |-> p.x, ret |-> [error |-> None, value |-> Bits(p.ret.margin_payload_status, 0, 8)]])

goto_normal_settings_m(x, lane, receiver_number) ==
    IF receiver_number \notin ReceiverRange0
    THEN [x |-> x, ret |-> [error |-> "ERROR: GotoNormalSettings - BAD receiver_number " \o ToString(receiver_number)]]
    ELSE Bind(command(x, lane, receiver_number, 2, 15,
                      "GotoNormalSettings", "ERROR: GotoNormalSettings - timedout"), LAMBDA p :
           IF p.returned THEN [x |-> p.x, ret |-> p.ret]
           ELSE [x |-> p.x, ret |-> [error |-> None, value |-> Bits(p.ret.margin_payload_status, 0, 8)]])

goto_normal_settings(x, lane, receiver_number) ==
    decorator(x, lane, goto_normal_settings_m(x, lane, receiver_number))

clear_error_log_m(x, lane, receiver_number) ==
    IF receiver_number \notin ReceiverRange0
    THEN [x |-> x, ret |-> [error |-> "ERROR: ClearErrorLog - BAD receiver_number " \o ToString(receiver_number)]]
    ELSE Bind(command(x, lane, receiver_number, 2, 85,
                      "ClearErrorLog", "ERROR: ClearErrorLog - timedout"), LAMBDA p :
           IF p.returned THEN [x |-> p.x, ret |-> p.ret]
           ELSE [x |-> p.x, ret |-> [error |-> None, value |-> Bits(p.ret.margin_payload_status, 0, 8)]])

clear_error_log(x, lane, receiver_number) ==
    decorator(x, lane, clear_error_log_m(x, lane, receiver_number))

----------------------------------------------------------------------------
(* The Step Margin commands (margin_type 0x3 timing, 0x4 voltage).         *)

MarginType == {"VOLTAGE_NONE", "VOLTAGE_UP", "VOLTAGE_DOWN", "TIMING_NONE", "TIMING_RIGHT", "TIMING_LEFT"}

\* The loop of decode_step_margin_*_of_default, for the issued type mt.
RECURSIVE decode_step_loop(_, _, _, _)
decode_step_loop(x, lane, mt, name) ==
    Bind(decode_margining_lane_status_register(x, lane), LAMBDA r :
      IF r.x.exc # None THEN [x |-> r.x, ret |-> r.ret]
      ELSE IF ~HasStatus(r.ret) THEN [x |-> Raise(r.x, "KeyError"), ret |-> r.ret]
      ELSE
      Bind(Bits(r.ret.margin_payload_status, 6, 2), LAMBDA step_margin_execution_status :
      Bind(Bits(r.ret.margin_payload_status, 0, 6), LAMBDA error_count :
      Bind(r.ret.margin_type_status, LAMBDA margin_type_status :
        IF margin_type_status = mt /\ step_margin_execution_status = 2
        THEN [x |-> r.x,
              ret |-> [error |-> None,
                       margin_type_status |-> margin_type_status,
                       step_margin_execution_status |-> step_margin_execution_status,
                       error_count |-> error_count]]
        ELSE IF margin_type_status = mt /\ step_margin_execution_status = 3
        THEN [x |-> r.x, ret |-> [error |-> "ERROR: " \o name \o " - unsupported operation"]]
        ELSE IF TimedOut(r.x)
        THEN [x |-> r.x, ret |-> [error |-> "ERROR: " \o name \o " - timedout"]]
        ELSE decode_step_loop(r.x, lane, mt, name)))))

decode_step_margin_timing_offset_right_left_of_default_m(x, lane) ==
    decode_step_loop(start_time(x), lane, 3, "decode_StepMarginTimingOffsetRightLeftOfDefault")

decode_step_margin_timing_offset_right_left_of_default(x, lane) ==
    decorator(x, lane, decode_step_margin_timing_offset_right_left_of_default_m(x, lane))

decode_step_margin_voltage_offset_up_down_of_default_m(x, lane) ==
    Bind(decode_margining_lane_status_register(x, lane), LAMBDA r :
      decode_step_loop(start_time(r.x), lane, 4, "decode_StepMarginVoltageOffsetUpDownOfDefault"))

decode_step_margin_voltage_offset_up_down_of_default(x, lane) ==
    decorator(x, lane, decode_step_margin_voltage_offset_up_down_of_default_m(x, lane))

\* The timing step with self.no_command(lane) moved before the tests of
\* margin_type.
step_margin_timing_no_command_first(x, lane, receiver_number, margin_type, steps) ==
    LET legal == IF ~Truthy2(x.self.device_info.ind_left_right_timing)
                 THEN margin_type = "TIMING_NONE"
                 ELSE margin_type \in {"TIMING_RIGHT", "TIMING_LEFT"}
        margin_payload == IF margin_type = "TIMING_LEFT" THEN BitOr64(steps) ELSE steps
        n == no_command(x, lane)
        w == write_margining_lane_control_register(n.x, lane, receiver_number, 3, 0, margin_payload)
    IN  IF receiver_number \notin ReceiverRange1
        THEN [x |-> x,
              ret |-> [error |-> "ERROR: StepMarginTimingOffsetRightLeftOfDefault - BAD receiver_number "
                                 \o ToString(receiver_number)]]
        ELSE IF ~legal
        THEN [x |-> n.x,
              ret |-> [error |-> "ERROR: StepMarginTimingOffsetRightLeftOfDefault - BAD margin_type MarginType."
                                 \o margin_type]]
        ELSE decode_step_margin_timing_offset_right_left_of_default(w.x, lane)

step_margin_timing_offset_right_left_of_default_m(x, lane, receiver_number, margin_type, steps) ==
    LET legal == IF ~Truthy2(x.self.device_info.ind_left_right_timing)
                 THEN margin_type = "TIMING_NONE"
                 ELSE margin_type \in {"TIMING_RIGHT", "TIMING_LEFT"}
        margin_payload == IF margin_type = "TIMING_LEFT" /\ Truthy2(x.self.device_info.ind_left_right_timing)
                          THEN BitOr64(steps) ELSE steps
        n == no_command(x, lane)
        w == write_margining_lane_control_register(n.x, lane, receiver_number, 3, 0, margin_payload)
    IN  IF receiver_number \notin ReceiverRange1
        THEN [x |-> x,
              ret |-> [error |-> "ERROR: StepMarginTimingOffsetRightLeftOfDefault - BAD receiver_number "
                                 \o ToString(receiver_number)]]
        ELSE IF ~legal /\ ~Truthy2(x.self.device_info.ind_left_right_timing)
        THEN [x |-> x,
              ret |-> [error |-> "ERROR: StepMarginTimingOffsetRightLeftOfDefault - Rcvr doesn't support independent left/right margining"]]
        ELSE IF ~legal
        THEN [x |-> x,
              ret |-> [error |-> "ERROR: StepMarginTimingOffsetRightLeftOfDefault - BAD margin_type MarginType."
                                 \o margin_type]]
        ELSE decode_step_margin_timing_offset_right_left_of_default(w.x, lane)

step_margin_timing_offset_right_left_of_default(x, lane, receiver_number, margin_type, steps) ==
    decorator(x, lane,
        step_margin_timing_offset_right_left_of_default_m(x, lane, receiver_number, margin_type, steps))

step_margin_voltage_offset_up_down_of_default_m(x, lane, receiver_number, margin_type, steps) ==
    LET legal == IF ~Truthy2(x.self.device_info.ind_up_down_voltage)
                 THEN margin_type = "VOLTAGE_NONE"
                 ELSE margin_type \in {"VOLTAGE_UP", "VOLTAGE_DOWN"}
        margin_payload == IF margin_type = "VOLTAGE_DOWN" /\ Truthy2(x.self.device_info.ind_up_down_voltage)
                          THEN BitOr64(steps) ELSE steps
        n == no_command(x, lane)
        w == write_margining_lane_control_register(n.x, lane, receiver_number, 4, 0, margin_payload)
    IN  IF receiver_number \notin ReceiverRange1
        THEN [x |-> x,
              ret |-> [error |-> "ERROR: StepMarginVoltageOffsetUpDownOfDefault - BAD receiver_number "
                                 \o ToString(receiver_number)]]
        ELSE IF ~legal /\ ~Truthy2(x.self.device_info.ind_up_down_voltage)
        THEN [x |-> x,
              ret |-> [error |-> "ERROR: StepMarginVoltageOffsetUpDownOfDefault - Rcvr doesn't support independent up/down margining"]]
        ELSE IF ~legal
        THEN [x |-> x,
              ret |-> [error |-> "ERROR: StepMarginVoltageOffsetUpDownOfDefault - BAD margin_type MarginType."
                                 \o margin_type]]
        ELSE decode_step_margin_voltage_offset_up_down_of_default(w.x, lane)

step_margin_voltage_offset_up_down_of_default(x, lane, receiver_number, margin_type, steps) ==
    decorator(x, lane,
        step_margin_voltage_offset_up_down_of_default_m(x, lane, receiver_number, margin_type, steps))

----------------------------------------------------------------------------
(* lib/pci_lmt_lib.py, class PCIe_LMT.  The operations up to ClearErrorLog *)
(* have the text of their namesakes in pcie_lane_margining.py; the Step    *)
(* Margin commands take a direction code and decode differently.           *)

write_MarginingLaneControlRegister(x, lane, receiver_number, margin_type, usage_model, margin_payload) ==
    write_margining_lane_control_register(x, lane, receiver_number, margin_type, usage_model, margin_payload)

decode_MarginingLaneStatusRegister(x, lane) == decode_margining_lane_status_register(x, lane)

NoCommand(x, lane) == no_command(x, lane)

FetchMarginControlCapabilities(x, lane, receiver_number) ==
    fetch_margin_control_capabilities(x, lane, receiver_number)

FetchSampleCount(x, lane, receiver_number) == fetch_sample_count(x, lane, receiver_number)

SetErrorCountLimit(x, lane, receiver_number, error_count_limit) ==
    set_error_count_limit(x, lane, receiver_number, error_count_limit)

GotoNormalSettings(x, lane, receiver_number) == goto_normal_settings(x, lane, receiver_number)

ClearErrorLog(x, lane, receiver_number) == clear_error_log(x, lane, receiver_number)

\* The result of the decode once the loop has ended.
lib_decode_step(x, lane, cmd, name) ==
    Bind(decode_MarginingLaneStatusRegister(x, lane), LAMBDA r :
    Bind(poll(start_time(r.x), lane, r.ret, cmd, "ERROR: " \o name \o " - timedout"), LAMBDA p :
      IF p.returned THEN [x |-> p.x, ret |-> p.ret]
      ELSE [x |-> p.x,
            ret |-> [error |-> None,
                     margin_type_status |-> p.ret.margin_type_status,
                     step_margin_execution_status |-> Bits(p.ret.margin_payload_status, 6, 2),
                     error_count |-> Bits(p.ret.margin_payload_status, 0, 6)]]))

decode_StepMarginTimingOffsetRightLeftOfDefault_m(x, lane) ==
    lib_decode_step(x, lane, "StepMarginTiming", "decode_StepMarginTimingOffsetRightLeftOfDefault")

decode_StepMarginTimingOffsetRightLeftOfDefault(x, lane) ==
    decorator(x, lane, decode_StepMarginTimingOffsetRightLeftOfDefault_m(x, lane))

decode_StepMarginVoltageOffsetUpDownOfDefault_m(x, lane) ==
    lib_decode_step(x, lane, "StepMarginVoltage", "decode_StepMarginVoltageOffsetUpDownOfDefault")

decode_StepMarginVoltageOffsetUpDownOfDefault(x, lane) ==
    decorator(x, lane, decode_StepMarginVoltageOffsetUpDownOfDefault_m(x, lane))

StepMarginTimingOffsetRightLeftOfDefault_m(x, lane, receiver_number, left_right_none, steps) ==
    LET margin_payload == IF left_right_none = 1 THEN BitOr64(steps) ELSE steps
        n == NoCommand(x, lane)
        w == write_MarginingLaneControlRegister(n.x, lane, receiver_number, 3, 0, margin_payload)
    IN  IF receiver_number \notin ReceiverRange1
        THEN [x |-> x,
              ret |-> [error |-> "ERROR: StepMarginTimingOffsetRightLeftOfDefault - BAD receiver_number "
                                 \o ToString(receiver_number)]]
        ELSE IF left_right_none \notin {-1, 0, 1}
        THEN [x |-> x,
              ret |-> [error |-> "ERROR: StepMarginTimingOffsetRightLeftOfDefault - BAD left_right_none "
                                 \o ToString(left_right_none)]]
        ELSE decode_StepMarginTimingOffsetRightLeftOfDefault(w.x, lane)

StepMarginTimingOffsetRightLeftOfDefault(x, lane, receiver_number, left_right_none, steps) ==
    decorator(x, lane, StepMarginTimingOffsetRightLeftOfDefault_m(x, lane, receiver_number, left_right_none, steps))

\* PARAMETERS["NumVoltageSteps"]: min .. max
NumVoltageStepsRange == 32 .. 127

StepMarginVoltageOffsetUpDownOfDefault_m(x, lane, receiver_number, up_down, steps) ==
    LET margin_payload == IF up_down = 1 THEN BitOr64(steps) ELSE steps
        n == NoCommand(x, lane)
        w == write_MarginingLaneControlRegister(n.x, lane, receiver_number, 4, 0, margin_payload)
    IN  IF receiver_number \notin ReceiverRange1
        THEN [x |-> x,
              ret |-> [error |-> "ERROR: StepMarginVoltageOffsetUpDownOfDefault - BAD receiver_number "
                                 \o ToString(receiver_number)]]
        ELSE IF steps \notin NumVoltageStepsRange
        THEN [x |-> x,
              ret |-> [error |-> "ERROR: StepMarginVoltageOffsetUpDownOfDefault - BAD Steps " \o ToString(steps)]]
        ELSE IF up_down \notin {0, 1}
        THEN [x |-> x,
              ret |-> [error |-> "ERROR: StepMarginVoltageOffsetUpDownOfDefault - BAD UpDown " \o ToString(up_down)]]
        ELSE decode_StepMarginVoltageOffsetUpDownOfDefault(w.x, lane)

StepMarginVoltageOffsetUpDownOfDefault(x, lane, receiver_number, up_down, steps) ==
    decorator(x, lane, StepMarginVoltageOffsetUpDownOfDefault_m(x, lane, receiver_number, up_down, steps))

----------------------------------------------------------------------------
(* Construction of a device handle.                                        *)

\* LmtDeviceInfo()
LmtDeviceInfo ==
    [bdf |-> "", speed |-> "", width |-> 0, lmt_capable |-> FALSE,
     ind_error_sampler |-> 0, sample_reporting_method |-> 0,
     ind_left_right_timing |-> 0, ind_up_down_voltage |-> 0, voltage_supported |-> 0,
     num_voltage_steps |-> 0, num_timing_steps |-> 0, max_timing_offset |-> 0,
     max_voltage_offset |-> 0, sampling_rate_voltage |-> 0, sampling_rate_timing |-> 0,
     max_lanes |-> 0]

\* PcieDeviceLaneMargining.__init__ without the test of the link speed.
PcieDeviceLaneMargining_without_speed_test(device) ==
    LET self0 == [cls |-> "PcieDeviceLaneMargining",
                  device_info |-> [LmtDeviceInfo EXCEPT !.bdf = device.bdf],
                  width_is_str |-> FALSE,
                  primed |-> FALSE,
                  device_error |-> None,
                  cap_lmt_offset |-> 0,
                  has_lane_errors |-> FALSE,
                  lane_errors |-> <<>>]
        self1 == [self0 EXCEPT !.device_info.width = device.width]
        self2 == [self1 EXCEPT !.device_info.speed = device.speed]
    IN  IF device.link_err # ""
        THEN [self0 EXCEPT !.device_error =
                  "BDF " \o device.bdf \o " Link down or device not present: " \o device.link_err]
        ELSE IF device.width \notin {1, 2, 4, 8, 16, 32, 64}
        THEN [self0 EXCEPT !.device_error =
                  "BDF " \o device.bdf \o " Unsupported Link width " \o ToString(device.width)]
        ELSE IF device.lmt_err # ""
        THEN [self2 EXCEPT !.device_error =
                  "BDF: " \o device.bdf \o " Lane Margining unsupported " \o device.lmt_err]
        ELSE [self2 EXCEPT !.cap_lmt_offset = device.offset,
                           !.has_lane_errors = TRUE,
                           !.lane_errors = [l \in 0 .. device.width - 1 |-> ""]]

\* PcieDeviceLaneMargining.__init__(device); device answers get_link_status()
\* with (link_err, width, speed) and get_lmt_cap_info() with (lmt_err, offset).
\* The attributes lane_errors and cap_lmt_offset exist only if the
\* constructor reached the statements that assign them.
PcieDeviceLaneMargining(device) ==
    LET self0 == [cls |-> "PcieDeviceLaneMargining",
                  device_info |-> [LmtDeviceInfo EXCEPT !.bdf = device.bdf],
                  width_is_str |-> FALSE,
                  primed |-> FALSE,
                  device_error |-> None,
                  cap_lmt_offset |-> 0,
                  has_lane_errors |-> FALSE,
                  lane_errors |-> <<>>]
        self1 == [self0 EXCEPT !.device_info.width = device.width]
        self2 == [self1 EXCEPT !.device_info.speed = device.speed]
    IN  IF device.link_err # ""
        THEN [self0 EXCEPT !.device_error =
                  "BDF " \o device.bdf \o " Link down or device not present: " \o device.link_err]
        ELSE IF device.width \notin {1, 2, 4, 8, 16, 32, 64}
        THEN [self0 EXCEPT !.device_error =
                  "BDF " \o device.bdf \o " Unsupported Link width " \o ToString(device.width)]
        ELSE IF device.speed \notin {"16GT/s", "32GT/s", "64GT/s"}
        THEN [self1 EXCEPT !.device_error =
                  "BDF:" \o device.bdf \o " Unsupported link speed " \o device.speed]
        ELSE IF device.lmt_err # ""
        THEN [self2 EXCEPT !.device_error =
                  "BDF: " \o device.bdf \o " Lane Margining unsupported " \o device.lmt_err]
        ELSE [self2 EXCEPT !.cap_lmt_offset = device.offset,
                           !.has_lane_errors = TRUE,
                           !.lane_errors = [l \in 0 .. device.width - 1 |-> ""]]

\* PCIe_LMT.__init__(bdf) of lib/pci_lmt_lib.py; CAP_LMT_OFFSET is the field
\* cap_lmt_offset.  utils/common.py declares LmtDeviceInfo.width with the
\* default "", a str: width_is_str tells that width still holds it.
PCIe_LMT(device) ==
    LET self0 == [cls |-> "PCIe_LMT",
                  device_info |-> [LmtDeviceInfo EXCEPT !.bdf = device.bdf],
                  width_is_str |-> TRUE,
                  primed |-> FALSE,
                  device_error |-> None,
                  cap_lmt_offset |-> 0,
                  has_lane_errors |-> FALSE,
                  lane_errors |-> <<>>]
        self1 == [self0 EXCEPT !.device_info.width = device.width, !.width_is_str = FALSE]
        self2 == [self1 EXCEPT !.device_info.speed = device.speed]
    IN  IF device.link_err # ""
        THEN [self0 EXCEPT !.device_error =
                  "BDF " \o device.bdf \o " Link down or device not present: " \o device.link_err]
        ELSE IF device.width \notin {1, 2, 4, 8, 16, 32, 64}
        THEN [self0 EXCEPT !.device_error =
                  "BDF " \o device.bdf \o " Unsupported Link width " \o ToString(device.width)]
        ELSE IF device.speed \notin {"16GT/s", "32GT/s", "64GT/s"}
        THEN [self1 EXCEPT !.device_error =
                  "BDF:" \o device.bdf \o " Unsupported link speed " \o device.speed]
        ELSE IF device.lmt_err # ""
        THEN [self2 EXCEPT !.device_error =
                  "BDF: " \o device.bdf \o " Lane Margining unsupported " \o device.lmt_err]
        ELSE [self2 EXCEPT !.cap_lmt_offset = device.offset,
                           !.has_lane_errors = TRUE,
                           !.lane_errors = [l \in 0 .. device.width - 1 |-> None]]

\* The handle of a device, of the given class.
Handle(cls, device) ==
    IF cls = "PCIe_LMT" THEN PCIe_LMT(device) ELSE PcieDeviceLaneMargining(device)

----------------------------------------------------------------------------
(* The devices the model is run on.                                        *)

\* A device with a link of the given width and speed whose Receiver reports
\* the capability bits caps and counts ec errors while margining.
Device(bdf, link_err, width, speed, lmt_err, caps, raw, ec) ==
    [bdf |-> bdf, link_err |-> link_err, width |-> width, speed |-> speed,
     lmt_err |-> lmt_err, offset |-> 256,
     caps |-> caps, sample_count |-> 7, raw |-> raw, step_resp |-> 128 + ec]

\* Devices whose construction fails, one for each reason.
BrokenDevices(bdf) ==
    { Device(bdf, "PCI Express capability not found", 0, "", "", 0, 0, 0),
      Device(bdf, "", 3, "16GT/s", "", 0, 0, 0),
      Device(bdf, "", 2, "8GT/s", "", 0, 0, 0),
      Device(bdf, "", 1, "16GT/s", "LMT capability not found", 0, 0, 0) }

\* What the hardware of a device reports, as the accessor sees it.
HwOf(device) ==
    [caps |-> device.caps, sample_count |-> device.sample_count,
     raw |-> device.raw, step_resp |-> device.step_resp]

\* The Lane Control registers after reset: No Command, payload 0x9C.
CtrlOf(device) == [l \in 0 .. device.width - 1 |-> Word(0, 7, 156)]

\* The undisturbed hardware, and a disturbance of one accessor call:
\* data is what the call returns (-1: the call fails), late whether the
\* clock has passed the deadline when the value arrives, sticky whether
\* every later status read of the operation shows the same value.
Quiet == [on |-> FALSE, at |-> 0, data |-> 0, late |-> FALSE, sticky |-> FALSE]
Glitch(at, data, late, sticky) == [on |-> TRUE, at |-> at, data |-> data, late |-> late, sticky |-> sticky]

Glitches ==
    { <<-1, FALSE, FALSE>>,
      <<Word(1, 0, 0), FALSE, TRUE>>,
      <<Word(1, 0, 0), FALSE, FALSE>>,
      <<Word(1, 0, 0), TRUE, FALSE>>,
      <<Word(1, 3, 192), FALSE, FALSE>>,
      <<Word(1, 4, 192), FALSE, FALSE>>,
      <<Word(1, 3, 64), FALSE, TRUE>>,
      <<Word(1, 4, 5), FALSE, TRUE>>,
      <<Word(1, 3, 131), TRUE, FALSE>>,
      <<Word(1, 4, 131), TRUE, FALSE>> }

Envs == {Quiet} \cup { Glitch(at, g[1], g[2], g[3]) : at \in 0 .. MaxAt, g \in Glitches }

----------------------------------------------------------------------------
(* State.                                                                  *)

VARIABLES
    pc,           \* where the program is
    device_list,  \* the device handles
    ctrl,         \* the Lane Control registers of each device
    hw,           \* what each device's Receiver reports
    touched,      \* whether the accessor was called on the device since construction
    last,         \* the last engine call: arguments, handle before, result, accessor calls
    run           \* the collector run: arguments, position in the loops, results

vars == <<pc, device_list, ctrl, hw, touched, last, run>>

NoCall == [op |-> "none"]
NoRun == [phase |-> "none"]

\* The context in which an operation on device d starts; faults collects
\* the assignments the decorator makes to lane_errors during the operation,
\* each with the entry it found.
Ctx(d, env) ==
    [self |-> device_list[d], ctrl |-> ctrl[d], hw |-> hw[d], env |-> env,
     io |-> <<>>, faults |-> <<>>, polls |-> 0, late |-> FALSE, exc |-> None]

\* The lanes an operation can be called on.
LanesOf(d) ==
    IF device_list[d].has_lane_errors THEN DOMAIN device_list[d].lane_errors ELSE {0}

\* The effect of one engine call with outcome r on the state.
Commit(d, r) ==
    /\ device_list' = [device_list EXCEPT ![d] = r.x.self]
    /\ ctrl' = [ctrl EXCEPT ![d] = r.x.ctrl]
    /\ touched' = [touched EXCEPT ![d] = @ \/ Len(r.x.io) > 0]

Record(op, d, lane, args, r) ==
    [op |-> op, d |-> d, lane |-> lane, args |-> args, pre |-> device_list[d],
     ret |-> r.ret, io |-> r.x.io, faults |-> r.x.faults, exc |-> r.x.exc]

----------------------------------------------------------------------------
(* The engine driven operation by operation: any operation, on any lane,   *)
(* with any arguments, under any behaviour of the hardware.                *)

EngineDevices ==
    { <<[cls |-> "PcieDeviceLaneMargining", device |-> dev]>> :
          dev \in BrokenDevices("01:00.0")
                  \cup { Device("01:00.0", "", 1, "16GT/s", "", caps, 0, 5) : caps \in {0, 31} } }
    \cup
    { <<[cls |-> "PCIe_LMT", device |-> dev]>> :
          dev \in BrokenDevices("01:00.0") \cup { Device("01:00.0", "", 1, "16GT/s", "", 31, 0, 5) } }

InitEngine ==
    /\ pc = "idle"
    /\ \E devs \in EngineDevices :
          /\ device_list = [d \in DOMAIN devs |-> Handle(devs[d].cls, devs[d].device)]
          /\ ctrl = [d \in DOMAIN devs |-> CtrlOf(devs[d].device)]
          /\ hw = [d \in DOMAIN devs |-> HwOf(devs[d].device)]
          /\ touched = [d \in DOMAIN devs |-> FALSE]
    /\ last = NoCall
    /\ run = NoRun

\* Receiver numbers and steps the operations are called with.
FetchReceivers == {0, 1}
SetReceivers == {1, 7}
Steps == {6}
VoltageSteps == {6, 40}
LeftRightNone == {-1, 0, 1, 2}
UpDown == {-1, 0, 1}

NoArgs == [receiver_number |-> -1, margin_type |-> "", steps |-> -1]
Rn(rn) == [NoArgs EXCEPT !.receiver_number = rn]

\* One call of the caller.
Call(op, d, lane, args, r) ==
    /\ pc = "idle"
    /\ pc' = "returned"
    /\ Commit(d, r)
    /\ last' = Record(op, d, lane, args, r)
    /\ UNCHANGED <<hw, run>>

Call_write_margining_lane_control_register ==
    \E d \in DOMAIN device_list : \E lane \in LanesOf(d) : \E env \in Envs :
      Call("write_margining_lane_control_register", d, lane, Rn(1),
             write_margining_lane_control_register(Ctx(d, env), lane, 1, 1, 0, 143))

Call_decode_margining_lane_status_register ==
    \E d \in DOMAIN device_list : \E lane \in LanesOf(d) : \E env \in Envs :
      Call("decode_margining_lane_status_register", d, lane, NoArgs,
             decode_margining_lane_status_register(Ctx(d, env), lane))

Call_no_command ==
    \E d \in DOMAIN device_list : \E lane \in LanesOf(d) : \E env \in Envs :
      Call("no_command", d, lane, NoArgs,
             no_command(Ctx(d, env), lane))

Call_fetch_margin_control_capabilities ==
    \E d \in DOMAIN device_list : \E lane \in LanesOf(d) : \E env \in Envs :
    \E rn \in FetchReceivers :
      Call("fetch_margin_control_capabilities", d, lane, Rn(rn),
             fetch_margin_control_capabilities(Ctx(d, env), lane, rn))

Call_fetch_num_voltage_steps ==
    \E d \in DOMAIN device_list : \E lane \in LanesOf(d) : \E env \in Envs :
    \E rn \in FetchReceivers :
      Call("fetch_num_voltage_steps", d, lane, Rn(rn),
             fetch_num_voltage_steps(Ctx(d, env), lane, rn))

Call_fetch_num_timing_steps ==
    \E d \in DOMAIN device_list : \E lane \in LanesOf(d) : \E env \in Envs :
    \E rn \in FetchReceivers :
      Call("fetch_num_timing_steps", d, lane, Rn(rn),
             fetch_num_timing_steps(Ctx(d, env), lane, rn))

Call_fetch_max_timing_offset ==
    \E d \in DOMAIN device_list : \E lane \in LanesOf(d) : \E env \in Envs :
    \E rn \in FetchReceivers :
      Call("fetch_max_timing_offset", d, lane, Rn(rn),
             fetch_max_timing_offset(Ctx(d, env), lane, rn))

Call_fetch_max_voltage_offset ==
    \E d \in DOMAIN device_list : \E lane \in LanesOf(d) : \E env \in Envs :
    \E rn \in FetchReceivers :
      Call("fetch_max_voltage_offset", d, lane, Rn(rn),
             fetch_max_voltage_offset(Ctx(d, env), lane, rn))

Call_fetch_sampling_rate_voltage ==
    \E d \in DOMAIN device_list : \E lane \in LanesOf(d) : \E env \in Envs :
    \E rn \in FetchReceivers :
      Call("fetch_sampling_rate_voltage", d, lane, Rn(rn),
             fetch_sampling_rate_voltage(Ctx(d, env), lane, rn))

Call_fetch_sampling_rate_timing ==
    \E d \in DOMAIN device_list : \E lane \in LanesOf(d) : \E env \in Envs :
    \E rn \in FetchReceivers :
      Call("fetch_sampling_rate_timing", d, lane, Rn(rn),
             fetch_sampling_rate_timing(Ctx(d, env), lane, rn))

Call_fetch_sample_count ==
    \E d \in DOMAIN device_list : \E lane \in LanesOf(d) : \E env \in Envs :
    \E rn \in FetchReceivers :
      Call("fetch_sample_count", d, lane, Rn(rn),
             fetch_sample_count(Ctx(d, env), lane, rn))

Call_fetch_max_lanes ==
    \E d \in DOMAIN device_list : \E lane \in LanesOf(d) : \E env \in Envs :
    \E rn \in FetchReceivers :
      Call("fetch_max_lanes", d, lane, Rn(rn),
             fetch_max_lanes(Ctx(d, env), lane, rn))

Call_set_error_count_limit ==
    \E d \in DOMAIN device_list : \E lane \in LanesOf(d) : \E env \in Envs :
    \E rn \in FetchReceivers :
      Call("set_error_count_limit", d, lane, Rn(rn),
             set_error_count_limit(Ctx(d, env), lane, rn, 63))

Call_goto_normal_settings ==
    \E d \in DOMAIN device_list : \E lane \in LanesOf(d) : \E env \in Envs :
    \E rn \in SetReceivers :
      Call("goto_normal_settings", d, lane, Rn(rn),
             goto_normal_settings(Ctx(d, env), lane, rn))

Call_clear_error_log ==
    \E d \in DOMAIN device_list : \E lane \in LanesOf(d) : \E env \in Envs :
    \E rn \in SetReceivers :
      Call("clear_error_log", d, lane, Rn(rn),
             clear_error_log(Ctx(d, env), lane, rn))

Call_step_margin_timing_offset_right_left_of_default ==
    \E d \in DOMAIN device_list : \E lane \in LanesOf(d) : \E env \in Envs :
    \E rn \in FetchReceivers, mt \in MarginType, steps \in Steps :
      /\ device_list[d].cls = "PcieDeviceLaneMargining"
      /\ Call("step_margin_timing_offset_right_left_of_default", d, lane, [receiver_number |-> rn, margin_type |-> mt, steps |-> steps],
             step_margin_timing_offset_right_left_of_default(Ctx(d, env), lane, rn, mt, steps))

Call_step_margin_voltage_offset_up_down_of_default ==
    \E d \in DOMAIN device_list : \E lane \in LanesOf(d) : \E env \in Envs :
    \E rn \in FetchReceivers, mt \in MarginType, steps \in Steps :
      /\ device_list[d].cls = "PcieDeviceLaneMargining"
      /\ Call("step_margin_voltage_offset_up_down_of_default", d, lane, [receiver_number |-> rn, margin_type |-> mt, steps |-> steps],
             step_margin_voltage_offset_up_down_of_default(Ctx(d, env), lane, rn, mt, steps))

Call_decode_step_margin_timing_offset_right_left_of_default ==
    \E d \in DOMAIN device_list : \E lane \in LanesOf(d) : \E env \in Envs :
      /\ device_list[d].cls = "PcieDeviceLaneMargining"
      /\ Call("decode_step_margin_timing_offset_right_left_of_default", d, lane, NoArgs,
             decode_step_margin_timing_offset_right_left_of_default(Ctx(d, env), lane))

Call_decode_step_margin_voltage_offset_up_down_of_default ==
    \E d \in DOMAIN device_list : \E lane \in LanesOf(d) : \E env \in Envs :
      /\ device_list[d].cls = "PcieDeviceLaneMargining"
      /\ Call("decode_step_margin_voltage_offset_up_down_of_default", d, lane, NoArgs,
             decode_step_margin_voltage_offset_up_down_of_default(Ctx(d, env), lane))

Call_StepMarginTimingOffsetRightLeftOfDefault ==
    \E d \in DOMAIN device_list : \E lane \in LanesOf(d) : \E env \in Envs :
    \E rn \in FetchReceivers, left_right_none \in LeftRightNone, steps \in Steps :
      /\ device_list[d].cls = "PCIe_LMT"
      /\ Call("StepMarginTimingOffsetRightLeftOfDefault", d, lane, [receiver_number |-> rn, left_right_none |-> left_right_none, steps |-> steps],
             StepMarginTimingOffsetRightLeftOfDefault(Ctx(d, env), lane, rn, left_right_none, steps))

Call_StepMarginVoltageOffsetUpDownOfDefault ==
    \E d \in DOMAIN device_list : \E lane \in LanesOf(d) : \E env \in Envs :
    \E rn \in FetchReceivers, up_down \in UpDown, steps \in VoltageSteps :
      /\ device_list[d].cls = "PCIe_LMT"
      /\ Call("StepMarginVoltageOffsetUpDownOfDefault", d, lane, [receiver_number |-> rn, up_down |-> up_down, steps |-> steps],
             StepMarginVoltageOffsetUpDownOfDefault(Ctx(d, env), lane, rn, up_down, steps))

Call_decode_StepMarginTimingOffsetRightLeftOfDefault ==
    \E d \in DOMAIN device_list : \E lane \in LanesOf(d) : \E env \in Envs :
      /\ device_list[d].cls = "PCIe_LMT"
      /\ Call("decode_StepMarginTimingOffsetRightLeftOfDefault", d, lane, NoArgs,
             decode_StepMarginTimingOffsetRightLeftOfDefault(Ctx(d, env), lane))

Call_decode_StepMarginVoltageOffsetUpDownOfDefault ==
    \E d \in DOMAIN device_list : \E lane \in LanesOf(d) : \E env \in Envs :
      /\ device_list[d].cls = "PCIe_LMT"
      /\ Call("decode_StepMarginVoltageOffsetUpDownOfDefault", d, lane, NoArgs,
             decode_StepMarginVoltageOffsetUpDownOfDefault(Ctx(d, env), lane))

\* The caller takes the result and is ready for the next call.  Before the
\* next call the link retrains, which puts the Lane Control registers back
\* to their reset values.
Return ==
    /\ pc = "returned"
    /\ pc' = "idle"
    /\ last' = NoCall
    /\ ctrl' = [d \in DOMAIN ctrl |-> [l \in DOMAIN ctrl[d] |-> Word(0, 7, 156)]]
    /\ UNCHANGED <<device_list, hw, touched, run>>

NextEngine ==
    \/ Call_write_margining_lane_control_register
    \/ Call_decode_margining_lane_status_register
    \/ Call_no_command
    \/ Call_fetch_margin_control_capabilities
    \/ Call_fetch_num_voltage_steps
    \/ Call_fetch_num_timing_steps
    \/ Call_fetch_max_timing_offset
    \/ Call_fetch_max_voltage_offset
    \/ Call_fetch_sampling_rate_voltage
    \/ Call_fetch_sampling_rate_timing
    \/ Call_fetch_sample_count
    \/ Call_fetch_max_lanes
    \/ Call_set_error_count_limit
    \/ Call_goto_normal_settings
    \/ Call_clear_error_log
    \/ Call_step_margin_timing_offset_right_left_of_default
    \/ Call_step_margin_voltage_offset_up_down_of_default
    \/ Call_decode_step_margin_timing_offset_right_left_of_default
    \/ Call_decode_step_margin_voltage_offset_up_down_of_default
    \/ Call_StepMarginTimingOffsetRightLeftOfDefault
    \/ Call_StepMarginVoltageOffsetUpDownOfDefault
    \/ Call_decode_StepMarginTimingOffsetRightLeftOfDefault
    \/ Call_decode_StepMarginVoltageOffsetUpDownOfDefault
    \/ Return

Spec == InitEngine /\ [][NextEngine]_vars

----------------------------------------------------------------------------
(* The collector: collectLmtOnBDFs of collector.py (PcieLmCollector over   *)
(* PcieDeviceLaneMargining) and of lib/pci_lmt_wrapper.py (PCIe_LMT_Devices *)
(* over PCIe_LMT), which have the same text.  One step is one iteration of *)
(* the loop of the method being run, or its return.                        *)

\* device.NoCommand, device.FetchMarginControlCapabilities, ...: the names
\* both collectors call.  PCIe_LMT has methods of these names;
\* PcieDeviceLaneMargining names its methods in snake_case, and looking up
\* the attribute raises AttributeError.  r is the outcome of the method.
Attribute(x, r) ==
    IF x.self.cls = "PCIe_LMT" THEN r
    ELSE [x |-> Raise(x, "AttributeError"), ret |-> [error |-> None]]

get_margin_directions(margin_type, margin_direction) ==
    CASE margin_type = "TIMING" /\ margin_direction = "right" ->
            [left_right_none |-> 0, up_down |-> -1, exc |-> None]
      [] margin_type = "TIMING" /\ margin_direction = "left" ->
            [left_right_none |-> 1, up_down |-> -1, exc |-> None]
      [] margin_type = "VOLTAGE" /\ margin_direction = "up" ->
            [left_right_none |-> -1, up_down |-> 0, exc |-> None]
      [] margin_type = "VOLTAGE" /\ margin_direction = "down" ->
            [left_right_none |-> -1, up_down |-> 1, exc |-> None]
      [] OTHER -> [left_right_none |-> -1, up_down |-> -1, exc |-> "ValueError"]

RECURSIVE GCD(_, _)
GCD(a, b) == IF b = 0 THEN a ELSE GCD(b, a % b)

\* The float n / m, kept as a fraction in lowest terms.
Float(n, m) == [num |-> n \div GCD(n, m), den |-> m \div GCD(n, m)]

\* LmtLaneResult(device_info=device.device_info, lane=lane,
\*               receiver_number=self.receiver_number, step=steps)
\* d stands for the reference to the device_info object of device d.
LmtLaneResult(d, lane, receiver_number, step) ==
    [d |-> d, lane |-> lane, receiver_number |-> receiver_number, margin_type |-> "",
     step |-> step, sample_count |-> -1, sample_count_bits |-> -1, error_count |-> -1,
     ber |-> Float(-1, 1), error |-> TRUE, error_msg |-> ""]

\* lane_result.margin_type
margin_type_name(voltage_or_timing, left_right_none, up_down) ==
    IF voltage_or_timing = "TIMING"
    THEN "timing_" \o (IF left_right_none = 0 THEN "right"
                       ELSE IF left_right_none = 1 THEN "left" ELSE "none")
    ELSE "voltage_" \o (IF up_down = 0 THEN "up" ELSE IF up_down = 1 THEN "down" ELSE "none")

\* The branches that fill lane_result with both fields of error swapped for
\* their defaults.
lane_result_without_message(result, stepper, sampler) ==
    IF Truthy(stepper.error) \/ Truthy(sampler.error)
    THEN [res |-> result, exc |-> None]
    ELSE IF "error_count" \notin DOMAIN stepper THEN [res |-> result, exc |-> "KeyError"]
    ELSE IF stepper.error_count = 0
    THEN [res |-> [result EXCEPT !.error = FALSE,
                                      !.sample_count = sampler.sample_count,
                                      !.sample_count_bits = sampler.sample_count_bits,
                                      !.error_count = 0,
                                      !.ber = Float(0, 1)],
          exc |-> None]
    ELSE IF sampler.sample_count_bits = 0 THEN [res |-> result, exc |-> "ZeroDivisionError"]
    ELSE [res |-> [result EXCEPT !.error = FALSE,
                                      !.sample_count = sampler.sample_count,
                                      !.sample_count_bits = sampler.sample_count_bits,
                                      !.error_count = stepper.error_count,
                                      !.ber = Float(stepper.error_count, sampler.sample_count_bits)],
          exc |-> None]

\* The branches that fill lane_result with the quotient turned over.
lane_result_with_inverse_ratio(result, stepper, sampler) ==
    IF Truthy(stepper.error) \/ Truthy(sampler.error)
    THEN [res |-> [result EXCEPT !.error = TRUE,
                                      !.error_msg = IF Truthy(stepper.error) THEN stepper.error
                                                    ELSE sampler.error],
          exc |-> None]
    ELSE IF "error_count" \notin DOMAIN stepper THEN [res |-> result, exc |-> "KeyError"]
    ELSE IF stepper.error_count = 0
    THEN [res |-> [result EXCEPT !.error = FALSE,
                                      !.sample_count = sampler.sample_count,
                                      !.sample_count_bits = sampler.sample_count_bits,
                                      !.error_count = 0,
                                      !.ber = Float(0, 1)],
          exc |-> None]
    ELSE [res |-> [result EXCEPT !.error = FALSE,
                                      !.sample_count = sampler.sample_count,
                                      !.sample_count_bits = sampler.sample_count_bits,
                                      !.error_count = stepper.error_count,
                                      !.ber = Float(sampler.sample_count_bits, stepper.error_count)],
          exc |-> None]

\* if stepper["error"] or sampler["error"]: ... elif stepper["error_count"] == 0:
\* ... else: ...   of collectLaneMarginOnDeviceList.
lane_result(result, stepper, sampler) ==
    IF Truthy(stepper.error) \/ Truthy(sampler.error)
    THEN [res |-> [result EXCEPT !.error = TRUE,
                                      !.error_msg = IF Truthy(stepper.error) THEN stepper.error
                                                    ELSE sampler.error],
          exc |-> None]
    ELSE IF "error_count" \notin DOMAIN stepper THEN [res |-> result, exc |-> "KeyError"]
    ELSE IF stepper.error_count = 0
    THEN [res |-> [result EXCEPT !.error = FALSE,
                                      !.sample_count = sampler.sample_count,
                                      !.sample_count_bits = sampler.sample_count_bits,
                                      !.error_count = 0,
                                      !.ber = Float(0, 1)],
          exc |-> None]
    ELSE IF sampler.sample_count_bits = 0 THEN [res |-> result, exc |-> "ZeroDivisionError"]
    ELSE [res |-> [result EXCEPT !.error = FALSE,
                                      !.sample_count = sampler.sample_count,
                                      !.sample_count_bits = sampler.sample_count_bits,
                                      !.error_count = stepper.error_count,
                                      !.ber = Float(stepper.error_count, sampler.sample_count_bits)],
          exc |-> None]

\* The devices of a run: healthy devices of one or two lanes with and
\* without an independent error sampler, and devices whose construction fails.
Healthy(bdf, width, caps, ec) == Device(bdf, "", width, "16GT/s", "", caps, 0, ec)

RunDevices ==
    { <<dev>> : dev \in BrokenDevices("01:00.0")
                        \cup { Healthy("01:00.0", 1, 20, 0),
                               Healthy("01:00.0", 2, 20, 3),
                               Healthy("01:00.0", 1, 4, 3) } }
    \cup
    { <<>>,
      <<Healthy("01:00.0", 1, 20, 3), Device("02:00.0", "", 2, "8GT/s", "", 0, 0, 0)>>,
      <<Device("01:00.0", "", 3, "16GT/s", "", 0, 0, 0), Healthy("02:00.0", 1, 20, 3)>>,
      <<Healthy("01:00.0", 1, 20, 3), Healthy("02:00.0", 1, 4, 0)>> }

\* How the hardware behaves during one engine call of a run: undisturbed,
\* a failing first read, a Lane Status register stuck on a stale value from
\* the answer to No Command on or from the answer to the command on, and a
\* Receiver that answers the step with NAK.
RunEnvs ==
    { Quiet,
      Glitch(0, -1, FALSE, FALSE),
      Glitch(2, Word(1, 0, 0), FALSE, TRUE),
      Glitch(5, Word(1, 0, 0), FALSE, TRUE),
      Glitch(5, Word(1, 3, 192), FALSE, FALSE),
      Glitch(8, Word(0, 7, 156), FALSE, TRUE) }

\* collectLmtOnBDFs(bdf_list, receiver_number, error_count_limit,
\* left_right_none, up_down, steps, voltage_or_timing) after
\* devices = PcieLmCollector(bdf_list) and devices.sampler_setup(...), with
\* the directions run_lmt took from get_margin_directions.
InitRun ==
    /\ pc = "noCommand1"
    /\ \E devs \in RunDevices, cls \in {"PCIe_LMT", "PcieDeviceLaneMargining"} :
          /\ device_list = [d \in DOMAIN devs |-> Handle(cls, devs[d])]
          /\ ctrl = [d \in DOMAIN devs |-> CtrlOf(devs[d])]
          /\ hw = [d \in DOMAIN devs |-> HwOf(devs[d])]
          /\ touched = [d \in DOMAIN devs |-> FALSE]
          /\ \E margin_type \in {"TIMING", "VOLTAGE"}, margin_direction \in {"right", "left", "up"},
                receiver_number \in {1, 7} :
                LET dirs == get_margin_directions(margin_type, margin_direction) IN
                /\ dirs.exc = None
                /\ run = [receiver_number |-> receiver_number,
                          error_count_limit |-> 50,
                          left_right_none |-> dirs.left_right_none,
                          up_down |-> dirs.up_down,
                          steps |-> 6,
                          voltage_or_timing |-> margin_type,
                          bdf_list |-> devs, cls |-> cls, step_no |-> 1, faulted_before |-> {},
                          d |-> 1, lane |-> 0,
                          cap_ret |-> [d \in DOMAIN devs |-> [returned |-> FALSE, error |-> None]],
                          swept |-> [d \in DOMAIN devs |-> {}],
                          results |-> <<>>,
                          calls |-> <<>>,
                          log |-> <<>>,
                          quiet |-> TRUE,
                          exc |-> None]
    /\ last = NoCall

\* The log of the calls with the call of the method name on a lane of device
\* d, whose outcome is r, with the assignments it made to lane_errors, the
\* addresses it read and wrote, and the payloads of the commands it wrote to
\* the Lane Control register; a name the engine does not have is no call.
Logged(log, name, d, lane, r) ==
    IF r.x.exc = "AttributeError" THEN log
    ELSE Append(log,
             [op |-> name, d |-> d, lane |-> lane, faults |-> r.x.faults,
              addresses |-> { r.x.io[i].address : i \in DOMAIN r.x.io },
              payloads |-> { Bits(r.x.io[i].data, 8, 8) :
                               i \in { j \in DOMAIN r.x.io : r.x.io[j].op = "write" } }])

NumDevices == Cardinality(DOMAIN device_list)

\* The next iteration of
\*     for device in self.device_list:
\*         [if device.primed:]
\*             for lane in range(device.device_info.width):
\* at or after (d, lane); d > NumDevices when the loops are over.
\* range() of the str that width holds by default raises TypeError.
RECURSIVE Seek(_, _, _)
Seek(d, lane, primed_only) ==
    IF d > NumDevices THEN [d |-> d, lane |-> 0, exc |-> None]
    ELSE IF primed_only /\ ~device_list[d].primed THEN Seek(d + 1, 0, primed_only)
    ELSE IF device_list[d].width_is_str THEN [d |-> d, lane |-> 0, exc |-> "TypeError"]
    ELSE IF lane >= device_list[d].device_info.width THEN Seek(d + 1, 0, primed_only)
    ELSE [d |-> d, lane |-> lane, exc |-> None]

\* The return of a method of the collector with time.sleep(dwell_time)
\* after the return of normalSettingsOnDeviceList.
Returns_sleeping_before_setup(next) ==
    /\ pc' = next
    /\ run' = [run EXCEPT !.d = 1, !.lane = 0,
                          !.log = IF next = "setup"
                                  THEN Append(@, [op |-> "sleep", d |-> 0, lane |-> 0, faults |-> <<>>, addresses |-> {}, payloads |-> {}])
                                  ELSE @]
    /\ UNCHANGED <<device_list, ctrl, hw, touched, last>>

\* The method returns and collectLmtOnBDFs goes on to its next statement;
\* before collectLaneMarginOnDeviceList that is time.sleep(dwell_time).
Returns(next) ==
    /\ pc' = next
    /\ run' = [run EXCEPT !.d = 1, !.lane = 0,
                          !.log = IF next = "collect"
                                  THEN Append(@, [op |-> "sleep", d |-> 0, lane |-> 0, faults |-> <<>>, addresses |-> {}, payloads |-> {}])
                                  ELSE @]
    /\ UNCHANGED <<device_list, ctrl, hw, touched, last>>

\* An exception leaves collectLmtOnBDFs.
Raises(exc) ==
    /\ pc' = "crashed"
    /\ run' = [run EXCEPT !.exc = exc]
    /\ UNCHANGED <<device_list, ctrl, hw, touched, last>>

\* One iteration of a sweep over the lanes of the primed devices: the engine
\* call with outcome r, whose result the collector drops.  run.quiet records
\* that the hardware has answered every call of the run undisturbed.
SweepCall(name, p, r) ==
    /\ Commit(p.d, r)
    /\ pc' = IF r.x.exc # None THEN "crashed" ELSE pc
    /\ run' = [run EXCEPT !.d = p.d, !.lane = p.lane + 1, !.exc = r.x.exc,
                          !.swept[p.d] = @ \cup {name},
                          !.log = Logged(@, name, p.d, p.lane, r),
                          !.quiet = @ /\ r.x.env = Quiet]
    /\ UNCHANGED <<hw, last>>

noCommandOnDeviceList ==
    /\ pc \in {"noCommand1", "noCommand2"}
    /\ LET p == Seek(run.d, run.lane, TRUE) IN
       IF p.exc # None THEN Raises(p.exc)
       ELSE IF p.d > NumDevices THEN Returns(IF pc = "noCommand1" THEN "info" ELSE "clearErrorLog")
       ELSE \E env \in RunEnvs :
              SweepCall("NoCommand", p, Attribute(Ctx(p.d, env), NoCommand(Ctx(p.d, env), p.lane)))

clearErrorLogOnDeviceList ==
    /\ pc = "clearErrorLog"
    /\ LET p == Seek(run.d, run.lane, TRUE) IN
       IF p.exc # None THEN Raises(p.exc)
       ELSE IF p.d > NumDevices THEN Returns("normalSettings")
       ELSE \E env \in RunEnvs :
              SweepCall("ClearErrorLog", p,
                  Attribute(Ctx(p.d, env), ClearErrorLog(Ctx(p.d, env), p.lane, run.receiver_number)))

normalSettingsOnDeviceList ==
    /\ pc = "normalSettings"
    /\ LET p == Seek(run.d, run.lane, TRUE) IN
       IF p.exc # None THEN Raises(p.exc)
       ELSE IF p.d > NumDevices THEN Returns("setup")
       ELSE \E env \in RunEnvs :
              SweepCall("GotoNormalSettings", p,
                  Attribute(Ctx(p.d, env), GotoNormalSettings(Ctx(p.d, env), p.lane, run.receiver_number)))

\* setupLaneMarginOnDeviceList passing a limit other than
\* self.error_count_limit.
setupLaneMarginOnDeviceList_with_other_limit ==
    /\ pc = "setup"
    /\ LET p == Seek(run.d, run.lane, TRUE) IN
       IF p.exc # None THEN Raises(p.exc)
       ELSE IF p.d > NumDevices THEN Returns("collect")
       ELSE \E env \in RunEnvs :
              SweepCall("SetErrorCountLimit", p,
                  Attribute(Ctx(p.d, env),
                      SetErrorCountLimit(Ctx(p.d, env), p.lane, run.receiver_number, run.error_count_limit + 1)))

\* The return of setupLaneMarginOnDeviceList is followed by
\* time.sleep(dwell_time).
setupLaneMarginOnDeviceList ==
    /\ pc = "setup"
    /\ LET p == Seek(run.d, run.lane, TRUE) IN
       IF p.exc # None THEN Raises(p.exc)
       ELSE IF p.d > NumDevices THEN Returns("collect")
       ELSE \E env \in RunEnvs :
              SweepCall("SetErrorCountLimit", p,
                  Attribute(Ctx(p.d, env),
                      SetErrorCountLimit(Ctx(p.d, env), p.lane, run.receiver_number, run.error_count_limit)))

\* The iteration marking the lanes of every device of the list faulty.
InfoCall_marking_every_device(d, r) ==
    LET self == r.x.self
        exc == IF r.x.exc # None THEN r.x.exc
               ELSE IF r.ret.error = None THEN None
               ELSE IF self.width_is_str THEN "TypeError"
               ELSE IF self.device_info.width > 0 /\ ~self.has_lane_errors THEN "AttributeError"
               ELSE None
    IN  /\ device_list' = [e \in DOMAIN device_list |->
               IF exc # None THEN (IF e = d THEN self ELSE device_list[e])
               ELSE IF r.ret.error = None
                    THEN (IF e = d THEN [self EXCEPT !.primed = TRUE] ELSE device_list[e])
               ELSE LET h == IF e = d THEN self ELSE device_list[e] IN
                    IF h.has_lane_errors
                    THEN [h EXCEPT !.lane_errors = [l \in DOMAIN @ |-> r.ret.error]]
                    ELSE h]
        /\ ctrl' = [ctrl EXCEPT ![d] = r.x.ctrl]
        /\ touched' = [touched EXCEPT ![d] = @ \/ Len(r.x.io) > 0]
        /\ pc' = IF exc # None THEN "crashed" ELSE pc
        /\ run' = [run EXCEPT !.d = d + 1, !.exc = exc,
                              !.log = Logged(@, "FetchMarginControlCapabilities", d, 0, r),
                              !.quiet = @ /\ r.x.env = Quiet,
                              !.cap_ret[d] = IF r.x.exc = None
                                             THEN [returned |-> TRUE, error |-> r.ret.error]
                                             ELSE @]
        /\ UNCHANGED <<hw, last>>

\* One iteration of infoLaneMarginOnDeviceList on device d: r is the outcome
\* of device.FetchMarginControlCapabilities(lane=0, ...).
InfoCall(d, r) ==
    LET self == r.x.self
        exc == IF r.x.exc # None THEN r.x.exc
               ELSE IF r.ret.error = None THEN None
               ELSE IF self.width_is_str THEN "TypeError"
               ELSE IF self.device_info.width > 0 /\ ~self.has_lane_errors THEN "AttributeError"
               ELSE None
    IN  /\ device_list' = [device_list EXCEPT ![d] =
               IF exc # None THEN self
               ELSE IF r.ret.error = None THEN [self EXCEPT !.primed = TRUE]
               ELSE IF self.has_lane_errors
                    THEN [self EXCEPT !.lane_errors = [l \in DOMAIN @ |-> r.ret.error]]
                    ELSE self]
        /\ ctrl' = [ctrl EXCEPT ![d] = r.x.ctrl]
        /\ touched' = [touched EXCEPT ![d] = @ \/ Len(r.x.io) > 0]
        /\ pc' = IF exc # None THEN "crashed" ELSE pc
        /\ run' = [run EXCEPT !.d = d + 1, !.exc = exc,
                              !.log = Logged(@, "FetchMarginControlCapabilities", d, 0, r),
                              !.quiet = @ /\ r.x.env = Quiet,
                              !.cap_ret[d] = IF r.x.exc = None
                                             THEN [returned |-> TRUE, error |-> r.ret.error]
                                             ELSE @]
        /\ UNCHANGED <<hw, last>>

infoLaneMarginOnDeviceList ==
    /\ pc = "info"
    /\ IF run.d > NumDevices THEN Returns("noCommand2")
       ELSE \E env \in RunEnvs :
              InfoCall(run.d,
                  Attribute(Ctx(run.d, env),
                      FetchMarginControlCapabilities(Ctx(run.d, env), 0, run.receiver_number)))

\* stepper = device.StepMarginTimingOffsetRightLeftOfDefault(...) for TIMING;
\* for VOLTAGE the collectors call device.StepMarginVoltageOffsetup_downOfDefault,
\* a name neither engine has.
Stepper(x, lane) ==
    IF run.voltage_or_timing = "TIMING"
    THEN Attribute(x, StepMarginTimingOffsetRightLeftOfDefault(x, lane, run.receiver_number,
                                                               run.left_right_none, run.steps))
    ELSE [x |-> Raise(x, "AttributeError"), ret |-> [error |-> None]]

\* sampler = device.FetchSampleCount(...), called where the stepper left the
\* device and the hardware.
Sampler(x, lane, env) ==
    IF x.exc # None THEN [x |-> [x EXCEPT !.io = <<>>], ret |-> [error |-> None]]
    ELSE Bind([x EXCEPT !.env = env, !.io = <<>>, !.faults = <<>>, !.polls = 0, !.late = FALSE], LAMBDA x1 :
           Attribute(x1, FetchSampleCount(x1, lane, run.receiver_number)))

\* One iteration of collectLaneMarginOnDeviceList.
CollectCall(p, stepper, sampler) ==
    LET filled == lane_result(
                      [LmtLaneResult(p.d, p.lane, run.receiver_number, run.steps) EXCEPT
                           !.margin_type = margin_type_name(run.voltage_or_timing,
                                                            run.left_right_none, run.up_down)],
                      stepper.ret, sampler.ret)
        exc == IF sampler.x.exc # None THEN sampler.x.exc ELSE filled.exc
    IN  /\ device_list' = [device_list EXCEPT ![p.d] = sampler.x.self]
        /\ ctrl' = [ctrl EXCEPT ![p.d] = sampler.x.ctrl]
        /\ touched' = [touched EXCEPT ![p.d] = @ \/ Len(stepper.x.io) > 0 \/ Len(sampler.x.io) > 0]
        /\ pc' = IF exc # None THEN "crashed" ELSE pc
        /\ run' = [run EXCEPT !.d = p.d, !.lane = p.lane + 1, !.exc = exc,
                              !.quiet = @ /\ stepper.x.env = Quiet /\ sampler.x.env = Quiet,
                              !.log = IF stepper.x.exc # None
                                      THEN Logged(@, "StepMargin", p.d, p.lane, stepper)
                                      ELSE Logged(Logged(@, "StepMargin", p.d, p.lane, stepper),
                                                  "FetchSampleCount", p.d, p.lane, sampler),
                              !.results = IF exc = None THEN Append(@, filled.res) ELSE @,
                              !.calls = IF exc = None
                                        THEN Append(@, [stepper |-> stepper.ret, sampler |-> sampler.ret])
                                        ELSE @]
        /\ UNCHANGED <<hw, last>>

\* The return of collectLaneMarginOnDeviceList is followed by the loop that
\* attaches test_info to the results, and collectLmtOnBDFs returns them.
collectLaneMarginOnDeviceList ==
    /\ pc = "collect"
    /\ LET p == Seek(run.d, run.lane, FALSE) IN
       IF p.exc # None THEN Raises(p.exc)
       ELSE IF p.d > NumDevices THEN Returns("done")
       ELSE \E env1, env2 \in RunEnvs :
              CollectCall(p, Stepper(Ctx(p.d, env1), p.lane),
                             Sampler(Stepper(Ctx(p.d, env1), p.lane).x, p.lane, env2))

NextRun ==
    \/ noCommandOnDeviceList
    \/ infoLaneMarginOnDeviceList
    \/ clearErrorLogOnDeviceList
    \/ normalSettingsOnDeviceList
    \/ setupLaneMarginOnDeviceList
    \/ collectLaneMarginOnDeviceList

SpecRun == InitRun /\ [][NextRun]_vars

\* The largest numbers of groups in a configuration, of steps in a group and
\* of devices in a bdf_list.
MaxGroups == 2
MaxSteps == 2
MaxBdfs == 2

\* The next iteration of   for step in cfg["margin_steps"]:   of run_lmt
\* after collectLmtOnBDFs has returned: collectLmtOnBDFs is called with the
\* same bdf_list and the next step, and builds its handles anew with
\* devices = PcieLmCollector(bdf_list).  The registers of the hardware are
\* as the last iteration left them; run.faulted_before keeps the devices
\* whose handles held a lane fault when an earlier iteration returned.
collectLmtOnBDFs ==
    /\ pc = "done"
    /\ run.step_no < MaxSteps
    /\ pc' = "noCommand1"
    /\ device_list' = [d \in DOMAIN run.bdf_list |-> Handle(run.cls, run.bdf_list[d])]
    /\ touched' = [d \in DOMAIN run.bdf_list |-> FALSE]
    /\ run' = [run EXCEPT !.step_no = @ + 1,
                          !.steps = @ + 1,
                          !.faulted_before =
                              @ \cup { d \in DOMAIN device_list :
                                         /\ device_list[d].has_lane_errors
                                         /\ \E l \in DOMAIN device_list[d].lane_errors :
                                               Truthy(device_list[d].lane_errors[l]) },
                          !.d = 1, !.lane = 0,
                          !.cap_ret = [d \in DOMAIN run.bdf_list |-> [returned |-> FALSE, error |-> None]],
                          !.swept = [d \in DOMAIN run.bdf_list |-> {}],
                          !.results = <<>>,
                          !.calls = <<>>,
                          !.log = <<>>,
                          !.quiet = TRUE,
                          !.exc = None]
    /\ UNCHANGED <<ctrl, hw, last>>

\* The steps of one group of run_lmt.
SpecSteps == InitRun /\ [][NextRun \/ collectLmtOnBDFs]_vars

\* The run with its one thread never stopped while it has a statement to
\* execute: as long as the run is not over the thread takes its next step,
\* and every step moves pc or the position kept in run.
Advance == pc' # pc \/ run' # run
FairSpecRun ==
    InitRun /\ [][NextRun]_vars /\ ([]<>(pc \in {"done", "crashed"}) \/ []<><<Advance>>_vars)

----------------------------------------------------------------------------
(* run_lmt: the groups and steps of a configuration and the output of the  *)
(* results (collector.py; lib/pci_lmt_wrapper.py has the same text).        *)
(*                                                                         *)
(* In this specification run holds the configuration file, args.output,    *)
(* the locals of run_lmt, what it has printed, and the Reporter that       *)
(* pci_lmt_bin/main.py builds for it.                                      *)

\* The configuration files: up to MaxGroups groups, each with a valid or an
\* invalid pair of margin_type and margin_direction, the first steps and the
\* first devices a group can name.
JsonFiles ==
    LET JsonGroups ==
          { [name |-> "g", receiver_number |-> 1,
             bdf_list |-> SubSeq(<<"01:00.0", "02:00.0", "03:00.0">>, 1, b),
             margin_type |-> t[1], margin_direction |-> t[2],
             margin_steps |-> SubSeq(<<6, 8, 10>>, 1, n)] :
              b \in 0 .. MaxBdfs, n \in 1 .. MaxSteps,
              t \in {<<"TIMING", "right">>, <<"VOLTAGE", "down">>, <<"TIMING", "up">>} }
    IN  { [platform_name |-> "p", lmt_groups |-> groups] :
            groups \in UNION { [1 .. n -> JsonGroups] : n \in 0 .. MaxGroups } }

\* PlatformConfig.from_json(data) of config.py, with ConfigLmtGroup.from_json
\* for each group: the fields are taken over as they are.
PlatformConfig_from_json(data) ==
    LET ConfigLmtGroup_from_json(group) ==
          [name |-> group.name, receiver_number |-> group.receiver_number,
           bdf_list |-> group.bdf_list,
           margin_type |-> group.margin_type, margin_direction |-> group.margin_direction,
           margin_steps |-> group.margin_steps]
    IN  [platform_name |-> data.platform_name,
         lmt_groups |-> [i \in DOMAIN data.lmt_groups |-> ConfigLmtGroup_from_json(data.lmt_groups[i])]]

\* LmtLaneResult.to_csv(): the keys of the flattened dict joined for the
\* header and its values for the row.  The results of run_lmt are told apart
\* by annotation (the group), step and bdf.
to_csv(result) ==
    [header |-> <<"test_info.annotation", "device_info.bdf", "step">>,
     row |-> <<result.test_info.annotation, result.device_info.bdf, ToString(result.step)>>]

\* The body of   for result in results:   with csv_header_done left as it is.
forward_without_flag(output, result, stdout, csv_header_done) ==
    IF output = "scribe"
    THEN [stdout |-> stdout, csv_header_done |-> csv_header_done, exc |-> None]
    ELSE IF output = "json"
    THEN [stdout |-> Append(stdout, <<"json", result>>), csv_header_done |-> csv_header_done, exc |-> None]
    ELSE IF output = "csv"
    THEN [stdout |-> IF ~csv_header_done
                     THEN stdout \o <<to_csv(result).header, to_csv(result).row>>
                     ELSE Append(stdout, to_csv(result).row),
          csv_header_done |-> csv_header_done, exc |-> None]
    ELSE [stdout |-> stdout, csv_header_done |-> csv_header_done, exc |-> "ValueError"]

\* The body of   for result in results:   of run_lmt: send_to_db for scribe
\* (which prints nothing), print(result.to_json()) for json, the header once
\* and the row for csv, ValueError for any other output.
forward(output, result, stdout, csv_header_done) ==
    IF output = "scribe"
    THEN [stdout |-> stdout, csv_header_done |-> csv_header_done, exc |-> None]
    ELSE IF output = "json"
    THEN [stdout |-> Append(stdout, <<"json", result>>), csv_header_done |-> csv_header_done, exc |-> None]
    ELSE IF output = "csv"
    THEN [stdout |-> IF ~csv_header_done
                     THEN stdout \o <<to_csv(result).header, to_csv(result).row>>
                     ELSE Append(stdout, to_csv(result).row),
          csv_header_done |-> TRUE, exc |-> None]
    ELSE [stdout |-> stdout, csv_header_done |-> csv_header_done, exc |-> "ValueError"]

\* An entry point is about to start: src/pci_lmt.py, which loads the
\* configuration and calls run_lmt(args, platform_config, utils), or
\* pci_lmt_bin/main.py.  Nothing has been printed and no Reporter has seen
\* an event.
InitLmt ==
    /\ pc = "main"
    /\ \E file \in JsonFiles, output \in {"scribe", "json", "csv", "ocptv"} :
          run = [file |-> file, output |-> output,
                 platform_config |-> [platform_name |-> "", lmt_groups |-> <<>>],
                 cfg |-> 1, step |-> 1, results |-> <<>>,
                 left_right_none |-> -1, up_down |-> -1,
                 csv_header_done |-> FALSE,
                 stdout |-> <<>>, collected |-> 0, forwarded |-> 0,
                 reporter |-> [events |-> <<>>],
                 exc |-> None]
    /\ device_list = <<>>
    /\ ctrl = <<>>
    /\ hw = <<>>
    /\ touched = <<>>
    /\ last = NoCall

\* pci_lmt_bin/main.py: its import of AggregatedReporter from
\* pci_lmt.results, which defines no such name, ends it before main() runs;
\* main() itself calls run_lmt with config=, host= and reporter=, which
\* run_lmt(args, platform_config, utils) does not take.
main ==
    /\ pc = "main"
    /\ pc' = "raised"
    /\ run' = [run EXCEPT !.exc = "ImportError"]
    /\ UNCHANGED <<device_list, ctrl, hw, touched, last>>

\* The configuration is loaded (read_platform_config of config.py;
\* get_platform_config_local of utils/common.py is json.loads alone) and
\* run_lmt runs up to its loop over the groups.
read_platform_config ==
    /\ pc = "main"
    /\ run' = [run EXCEPT !.platform_config = PlatformConfig_from_json(run.file),
                          !.csv_header_done = FALSE]
    /\ pc' = "for cfg"
    /\ UNCHANGED <<device_list, ctrl, hw, touched, last>>

\* for cfg in platform_config["lmt_groups"]: ... get_margin_directions(cfg)
for_cfg ==
    /\ pc = "for cfg"
    /\ IF run.cfg > Len(run.platform_config.lmt_groups)
       THEN /\ pc' = "returned"
            /\ run' = run
       ELSE LET cfg == run.platform_config.lmt_groups[run.cfg]
                dirs == get_margin_directions(cfg.margin_type, cfg.margin_direction)
            IN  IF dirs.exc # None
                THEN /\ pc' = "raised"
                     /\ run' = [run EXCEPT !.exc = dirs.exc]
                ELSE /\ pc' = "for step"
                     /\ run' = [run EXCEPT !.left_right_none = dirs.left_right_none,
                                           !.up_down = dirs.up_down,
                                           !.step = 1]
    /\ UNCHANGED <<device_list, ctrl, hw, touched, last>>

\* for step in cfg["margin_steps"]: results = collectLmtOnBDFs(...), which
\* returns one LmtLaneResult for each lane of each device of bdf_list (the
\* devices here have one lane) or ends by an exception; collected counts
\* the calls that reached a device.
for_step ==
    /\ pc = "for step"
    /\ LET cfg == run.platform_config.lmt_groups[run.cfg] IN
       IF run.step > Len(cfg.margin_steps)
       THEN /\ pc' = "for cfg"
            /\ run' = [run EXCEPT !.cfg = @ + 1]
       ELSE \E returns \in BOOLEAN :
              /\ returns \/ cfg.bdf_list # <<>>
              /\ pc' = IF returns THEN "for result" ELSE "raised"
              /\ run' = [run EXCEPT
                           !.collected = IF cfg.bdf_list # <<>> THEN @ + 1 ELSE @,
                           !.exc = IF returns THEN None ELSE "AttributeError",
                           !.results = IF returns
                                       THEN [i \in DOMAIN cfg.bdf_list |->
                                               [test_info |-> [annotation |-> cfg.name \o ToString(run.cfg)],
                                                device_info |-> [bdf |-> cfg.bdf_list[i]],
                                                step |-> cfg.margin_steps[run.step]]]
                                       ELSE <<>>]
    /\ UNCHANGED <<device_list, ctrl, hw, touched, last>>

\* for result in results: ...
for_result ==
    /\ pc = "for result"
    /\ IF run.results = <<>>
       THEN /\ pc' = "for step"
            /\ run' = [run EXCEPT !.step = @ + 1]
       ELSE LET f == forward(run.output, Head(run.results), run.stdout, run.csv_header_done) IN
            /\ pc' = IF f.exc # None THEN "raised" ELSE pc
            /\ run' = [run EXCEPT !.results = Tail(@),
                                  !.stdout = f.stdout,
                                  !.csv_header_done = f.csv_header_done,
                                  !.forwarded = IF f.exc = None THEN @ + 1 ELSE @,
                                  !.exc = f.exc]
    /\ UNCHANGED <<device_list, ctrl, hw, touched, last>>

SpecLmt ==
    InitLmt /\ [][main \/ read_platform_config \/ for_cfg \/ for_step \/ for_result]_vars

----------------------------------------------------------------------------
(* The construction of a handle, over the links a device can report.       *)
(* In this specification hw[1] is the device as get_link_status() and      *)
(* get_lmt_cap_info() describe it.                                         *)

\* The devices a handle is constructed for: link status obtained or not,
\* the widths and speeds the Link Status register encodes (0 and 12 lanes and
\* 'Unknown' included), with and without the Lane Margining capability.
InitNew ==
    /\ pc = "new"
    /\ hw \in { <<Device("01:00.0", link_err, IF link_err = "" THEN width ELSE 0,
                        IF link_err = "" THEN speed ELSE "", lmt_err, 31, 0, 5)>> :
                 link_err \in {"", "PCI Express capability not found", "Couldn't read Link status"},
                 width \in {0, 1, 2, 3, 4, 8, 12, 16, 32, 63, 64},
                 speed \in {"2.5GT/s", "5GT/s", "8GT/s", "16GT/s", "32GT/s", "64GT/s", "Unknown"},
                 lmt_err \in {"", "PCI LMT capability not found"} }
    /\ device_list = <<>>
    /\ ctrl = <<>>
    /\ touched = <<>>
    /\ last = NoCall
    /\ run = NoRun

\* PcieDeviceLaneMargining(device) or PCIe_LMT(bdf) returns the handle.
Construct ==
    /\ pc = "new"
    /\ \E cls \in {"PcieDeviceLaneMargining", "PCIe_LMT"} :
          device_list' = <<Handle(cls, hw[1])>>
    /\ ctrl' = <<CtrlOf(hw[1])>>
    /\ touched' = <<FALSE>>
    /\ pc' = "idle"
    /\ UNCHANGED <<hw, last, run>>

SpecNew == InitNew /\ [][Construct]_vars

----------------------------------------------------------------------------
(* no_command, goto_normal_settings and clear_error_log under a Lane       *)
(* Status register that shows part of the expected response.               *)

\* Status values that show one half of an expected response: Receiver
\* Number 0 with another payload, payload 0x9C with another Receiver
\* Number, Margin Type 2 with another payload, payload 0x0F or 0x55 with
\* another Margin Type; and one that shows none.
PollEnvs ==
    {Quiet} \cup
    { Glitch(at, data, FALSE, FALSE) :
        at \in 0 .. MaxAt,
        data \in { Word(0, 1, 136), Word(1, 7, 156), Word(1, 2, 192),
                   Word(1, 1, 15), Word(1, 1, 85), Word(1, 0, 0) } }

Poll_no_command ==
    \E d \in DOMAIN device_list : \E lane \in LanesOf(d) : \E env \in PollEnvs :
      Call("no_command", d, lane, NoArgs,
             no_command(Ctx(d, env), lane))

Poll_goto_normal_settings ==
    \E d \in DOMAIN device_list : \E lane \in LanesOf(d) : \E env \in PollEnvs :
      \E rn \in SetReceivers :
      Call("goto_normal_settings", d, lane, Rn(rn),
             goto_normal_settings(Ctx(d, env), lane, rn))

Poll_clear_error_log ==
    \E d \in DOMAIN device_list : \E lane \in LanesOf(d) : \E env \in PollEnvs :
      \E rn \in SetReceivers :
      Call("clear_error_log", d, lane, Rn(rn),
             clear_error_log(Ctx(d, env), lane, rn))

SpecPoll ==
    InitEngine /\ [][Poll_no_command \/ Poll_goto_normal_settings \/ Poll_clear_error_log \/ Return]_vars

----------------------------------------------------------------------------
(* fetch_sample_count over the values of MSampleCount.                     *)

\* The largest MSampleCount the model lets a Receiver report.
MaxSampleCount == 29

\* A constructed x1 device whose Receiver answers the sample count request
\* with a count up to MaxSampleCount, the reserved bit 7 clear or set.
InitSample ==
    /\ pc = "idle"
    /\ \E payload \in (0 .. MaxSampleCount) \cup { 128 + k : k \in 0 .. MaxSampleCount } :
          LET dev == [Device("01:00.0", "", 1, "16GT/s", "", 31, 0, 5) EXCEPT !.sample_count = payload] IN
          /\ device_list = <<PcieDeviceLaneMargining(dev)>>
          /\ ctrl = <<CtrlOf(dev)>>
          /\ hw = <<HwOf(dev)>>
          /\ touched = <<FALSE>>
    /\ last = NoCall
    /\ run = NoRun

SpecSample == InitSample /\ [][Call_fetch_sample_count \/ Return]_vars

----------------------------------------------------------------------------
(* The two register accesses over the values of their arguments and of the *)
(* registers.                                                              *)

\* Two constructed x2 devices whose Lane Control registers hold No Command
\* with the reserved bit 7 clear or set, or all ones.
InitReg ==
    /\ pc = "idle"
    /\ \E v \in {Word(0, 7, 156), 128 + Word(0, 7, 156), 65535} :
          LET devs == <<Device("01:00.0", "", 2, "16GT/s", "", 31, 0, 5),
                        Device("02:00.0", "", 2, "16GT/s", "", 31, 0, 5)>> IN
          /\ device_list = [d \in 1 .. 2 |-> PcieDeviceLaneMargining(devs[d])]
          /\ ctrl = [d \in 1 .. 2 |-> [l \in 0 .. 1 |-> v]]
          /\ hw = [d \in 1 .. 2 |-> HwOf(devs[d])]
          /\ touched = [d \in 1 .. 2 |-> FALSE]
    /\ last = NoCall
    /\ run = NoRun

\* write_margining_lane_control_register with arguments inside and outside
\* the width of their fields, the accessor failing at the read or the write.
Reg_write ==
    \E lane \in 0 .. 1 : \E env \in {Quiet, Glitch(0, -1, FALSE, FALSE), Glitch(1, -1, FALSE, FALSE)} :
    \E a \in {<<1, 3, 0, 143>>, <<9, 15, 3, 412>>, <<6, 1, 1, 255>>, <<0, 7, 0, 156>>} :
      Call("write_margining_lane_control_register", 1, lane,
             [steps |-> -1, receiver_number |-> a[1], margin_type |-> "",
              type |-> a[2], usage_model |-> a[3], payload |-> a[4]],
             write_margining_lane_control_register(Ctx(1, env), lane, a[1], a[2], a[3], a[4]))

\* decode_margining_lane_status_register of what the Receiver answers, of a
\* failed read, and of other values of the Lane Status register.
Reg_decode ==
    \E lane \in 0 .. 1 :
    \E env \in {Quiet, Glitch(0, -1, FALSE, FALSE), Glitch(0, 65535, FALSE, FALSE),
                Glitch(0, 42435, FALSE, FALSE), Glitch(0, 23100, FALSE, FALSE)} :
      Call("decode_margining_lane_status_register", 1, lane, NoArgs,
             decode_margining_lane_status_register(Ctx(1, env), lane))

\* Step counts of a configuration: inside the six bits below the direction
\* bit, its first value outside, and one with bit 7 set.
StepValues == {6, 63, 64, 70, 200}

\* The capability fetch that tells the handle what the Receiver supports,
\* with a receiver number inside and one outside its range.
Reg_capabilities ==
    \E d \in 1 .. 2 : \E lane \in 0 .. 1 : \E rn \in {0, 1} :
      Call("fetch_margin_control_capabilities", d, lane, Rn(rn),
             fetch_margin_control_capabilities(Ctx(d, Quiet), lane, rn))

Reg_step_timing ==
    \E lane \in 0 .. 1 : \E mt \in {"TIMING_RIGHT", "TIMING_LEFT"}, steps \in StepValues :
      Call("step_margin_timing_offset_right_left_of_default", 1, lane,
             [receiver_number |-> 1, margin_type |-> mt, steps |-> steps],
             step_margin_timing_offset_right_left_of_default(Ctx(1, Quiet), lane, 1, mt, steps))

Reg_step_voltage ==
    \E lane \in 0 .. 1 : \E mt \in {"VOLTAGE_UP", "VOLTAGE_DOWN"}, steps \in StepValues :
      Call("step_margin_voltage_offset_up_down_of_default", 1, lane,
             [receiver_number |-> 1, margin_type |-> mt, steps |-> steps],
             step_margin_voltage_offset_up_down_of_default(Ctx(1, Quiet), lane, 1, mt, steps))

SpecReg ==
    InitReg /\ [][Reg_write \/ Reg_decode \/ Reg_capabilities \/ Reg_step_timing \/ Reg_step_voltage \/ Return]_vars

----------------------------------------------------------------------------
(* Operations called with receiver numbers inside and outside their ranges *)
(* on the lanes of two devices.                                            *)

Rcv_set_error_count_limit ==
    \E d \in 1 .. 2 : \E lane \in 0 .. 1 : \E rn \in {0, 1} :
      Call("set_error_count_limit", d, lane, Rn(rn),
             set_error_count_limit(Ctx(d, Quiet), lane, rn, 63))

Rcv_goto_normal_settings ==
    \E d \in 1 .. 2 : \E lane \in 0 .. 1 : \E rn \in {0, 7} :
      Call("goto_normal_settings", d, lane, Rn(rn),
             goto_normal_settings(Ctx(d, Quiet), lane, rn))

Rcv_step_timing ==
    \E d \in 1 .. 2 : \E lane \in 0 .. 1 : \E rn \in {1, 7} :
      Call("step_margin_timing_offset_right_left_of_default", d, lane,
             [receiver_number |-> rn, margin_type |-> "TIMING_RIGHT", steps |-> 6],
             step_margin_timing_offset_right_left_of_default(Ctx(d, Quiet), lane, rn, "TIMING_RIGHT", 6))

SpecRcv ==
    InitReg /\ [][Reg_capabilities \/ Rcv_set_error_count_limit \/ Rcv_goto_normal_settings \/ Rcv_step_timing \/ Return]_vars

----------------------------------------------------------------------------
(* The capability lists of lib/pci_lib.py (PciLib).                        *)
(*                                                                         *)
(* In this specification hw is the configuration space of the device (a   *)
(* function from the addresses the model gives a content to their 32-bit  *)
(* content), run is the PciLib object with the local offset_next of the   *)
(* running traversal, and pc is the statement PciLib is at.  A 32-bit     *)
(* value is the record of its two halves, [hi, lo].                       *)

\* The return value -1 of read(), and the content of an address no device
\* answers at.
Failed == [hi |-> -1, lo |-> -1]

CAPABILITIES_POINTER == 52
EXTENDED_CAPABILITIES_POINTER == 256
PCI_EXPRESS_CAP_ID == 16
PCI_LMT_EXT_CAP_ID == 39

\* The key None of cap_dict and ext_cap_dict, and the value None of offset_next.
NoId == -1
NoOffset == -2

\* PciLib.read(address, width) with every check but the one of the width.
PciRead_without_width_check(address, width) ==
    IF address < 0 \/ address >= 4095 THEN [data |-> Failed, popen |-> 0]
    ELSE IF address \in DOMAIN hw
    THEN [data |-> IF hw[address] = Failed THEN Failed
                   ELSE IF width = 8 THEN [hi |-> 0, lo |-> hw[address].lo % 256]
                   ELSE IF width = 16 THEN [hi |-> 0, lo |-> hw[address].lo]
                   ELSE hw[address],
          popen |-> 1]
    ELSE [data |-> [hi |-> 0, lo |-> 0], popen |-> 1]

\* PciLib.read(address, width): -1 and no setpci for an address outside the
\* configuration space or a width that is not 8, 16 or 32; else one setpci,
\* and -1 if it raises (the content Failed), else what it prints: the byte,
\* word or dword at the address.  An address the model gives no content to
\* reads as zero.  data is the returned value, popen the number of calls of
\* os.popen.  address is an int here.
PciRead(address, width) ==
    IF address < 0 \/ address >= 4095 THEN [data |-> Failed, popen |-> 0]
    ELSE IF width \notin {8, 16, 32} THEN [data |-> Failed, popen |-> 0]
    ELSE IF address \in DOMAIN hw
    THEN [data |-> IF hw[address] = Failed THEN Failed
                   ELSE IF width = 8 THEN [hi |-> 0, lo |-> hw[address].lo % 256]
                   ELSE IF width = 16 THEN [hi |-> 0, lo |-> hw[address].lo]
                   ELSE hw[address],
          popen |-> 1]
    ELSE [data |-> [hi |-> 0, lo |-> 0], popen |-> 1]

\* PciLib.write(address, data, width): -1 and no setpci for an address
\* outside the configuration space or a width that is not 8, 16 or 32; else
\* one setpci, -1 if os.popen raises (an address of content Failed) and 0
\* otherwise.  space is the configuration space afterwards.
PciWrite(address, data, width) ==
    IF address < 0 \/ address >= 4095 THEN [ret |-> -1, popen |-> 0, space |-> hw]
    ELSE IF width \notin {8, 16, 32} THEN [ret |-> -1, popen |-> 0, space |-> hw]
    ELSE IF address \in DOMAIN hw
    THEN IF hw[address] = Failed
         THEN [ret |-> -1, popen |-> 1, space |-> hw]
         ELSE [ret |-> 0, popen |-> 1,
               space |-> [hw EXCEPT ![address] =
                            IF width = 8 THEN [hi |-> @.hi, lo |-> (@.lo \div 256) * 256 + (data.lo % 256)]
                            ELSE IF width = 16 THEN [hi |-> @.hi, lo |-> data.lo]
                            ELSE data]]
    ELSE [ret |-> 0, popen |-> 1, space |-> hw]

\* decode_capability(address) of create_dict_capabilities.
decode_capability(address) ==
    LET data == PciRead(address, 32).data IN
    IF data = Failed \/ data = [hi |-> 65535, lo |-> 65535]
    THEN [err_msg |-> "ERROR: decode_capability address " \o ToString(address),
          id |-> NoId, version |-> None, offset |-> None, offset_next |-> 0]
    ELSE [err_msg |-> None,
          id |-> data.lo % 256,
          version |-> data.hi % 8,
          offset |-> address,
          offset_next |-> (((data.lo \div 256) % 256) \div 4) * 4]

\* decode_extended_capability(address) of create_dict_extended_capabilities.
decode_extended_capability(address) ==
    LET data == PciRead(address, 32).data IN
    IF data = Failed
    THEN [err_msg |-> "ERROR: decode_extended_capability address " \o ToString(address),
          id |-> NoId, version |-> None, offset |-> None, offset_next |-> NoOffset]
    ELSE [err_msg |-> None,
          id |-> data.lo,
          version |-> data.hi % 16,
          offset |-> address,
          offset_next |-> data.hi \div 16]

\* dict[key] = value
SetItem(dict, key, value) ==
    [k \in DOMAIN dict \cup {key} |-> IF k = key THEN value ELSE dict[k]]

\* The contents of the configuration space the traversals are run on: a
\* capabilities pointer, two capabilities and two extended capabilities whose
\* next pointers lead to zero, to each other or to themselves, with reserved
\* low bits set or not, and addresses whose read fails; and behind each
\* capability a Link Status register (0x12 after it) that reads 16GT/s x32
\* with its upper bits set, a reserved speed code x1, or fails.
ConfigSpaces ==
    LET CapAddresses == {64, 80}
        ExtAddresses == {256, 320}
        CapContents ==
          { [hi |-> 0, lo |-> id + 256 * next] :
              id \in {PCI_EXPRESS_CAP_ID, 1}, next \in {0, 64, 80, 82} }
            \cup {Failed, [hi |-> 65535, lo |-> 65535]}
        ExtContents ==
          { [hi |-> 1 + 16 * next, lo |-> id] :
              id \in {PCI_LMT_EXT_CAP_ID, 1}, next \in {0, 256, 320} }
            \cup {Failed}
    IN  { [a \in {CAPABILITIES_POINTER} \cup CapAddresses \cup {82, 98} \cup ExtAddresses |->
              IF a = CAPABILITIES_POINTER THEN ptr
              ELSE IF a \in CapAddresses THEN caps[a]
              ELSE IF a \in {82, 98} THEN status ELSE exts[a]] :
          ptr \in {[hi |-> 0, lo |-> p] : p \in {0, 64, 80}} \cup {Failed},
          status \in {[hi |-> 0, lo |-> 65028], [hi |-> 0, lo |-> 23], Failed},
          caps \in [CapAddresses -> CapContents],
          exts \in [ExtAddresses -> ExtContents] }

\* PciLib(bdf).__init__, before the constructor of the engine asks for the
\* link status.  decoded and twice record the addresses the traversals have
\* decoded and whether one was decoded a second time, cap_keys and
\* ext_cap_keys the keys of the two dictionaries in the order of their
\* insertion, link_status and lmt_cap_info what get_link_status() and
\* get_lmt_cap_info() have returned, if they have.
InitCap ==
    /\ pc = "get_link_status"
    /\ hw \in ConfigSpaces
    /\ run = [cap_dict |-> <<>>, ext_cap_dict |-> <<>>, offset_next |-> 0,
              cap_keys |-> <<>>, ext_cap_keys |-> <<>>,
              link_status |-> <<>>, lmt_cap_info |-> <<>>,
              decoded |-> {}, twice |-> FALSE, exc |-> None]
    /\ device_list = <<>>
    /\ ctrl = <<>>
    /\ touched = <<>>
    /\ last = NoCall

\* get_link_status() enters create_dict_capabilities(): the dictionary is
\* empty, and offset_next = self.read(address=self.CAPABILITIES_POINTER, width=32).
create_dict_capabilities ==
    /\ pc = "get_link_status"
    /\ LET data == PciRead(CAPABILITIES_POINTER, 32).data IN
       run' = [run EXCEPT !.offset_next = IF data = Failed THEN -1 ELSE data.hi * 65536 + data.lo]
    /\ pc' = "create_dict_capabilities"
    /\ UNCHANGED <<device_list, ctrl, hw, touched, last>>

\* One iteration of   while offset_next != 0 and offset_next != -1:
\* of create_dict_capabilities.
create_dict_capabilities_loop ==
    /\ pc = "create_dict_capabilities"
    /\ run.offset_next # 0 /\ run.offset_next # -1
    /\ LET cap_info == decode_capability(run.offset_next) IN
       run' = [run EXCEPT !.cap_dict = SetItem(@, cap_info.id, cap_info),
                          !.cap_keys = IF cap_info.id \in DOMAIN run.cap_dict
                                       THEN @ ELSE Append(@, cap_info.id),
                          !.offset_next = cap_info.offset_next,
                          !.twice = @ \/ run.offset_next \in run.decoded,
                          !.decoded = @ \cup {run.offset_next}]
    /\ UNCHANGED <<pc, device_list, ctrl, hw, touched, last>>

\* get_link_status() without the masks of its two fields.
LinkStatusInfo_without_masks(cap_dict) ==
    IF PCI_EXPRESS_CAP_ID \notin DOMAIN cap_dict
    THEN [err_msg |-> "PCI Express capability not found",
          speed |-> None, speed_gts |-> None, width |-> None]
    ELSE LET data == PciRead(cap_dict[PCI_EXPRESS_CAP_ID].offset + 18, 16).data IN
         IF data = Failed
         THEN [err_msg |-> "Couldn't read Link status",
               speed |-> None, speed_gts |-> None, width |-> None]
         ELSE LET speed == data.lo
                  names == <<"2.5GT/s", "5GT/s", "8GT/s", "16GT/s", "32GT/s", "64GT/s">>
              IN  [err_msg |-> None,
                   speed |-> speed,
                   speed_gts |-> IF speed \in DOMAIN names THEN names[speed] ELSE "Unknown",
                   width |-> data.lo \div 16]

\* get_link_status() after create_dict_capabilities(): an error if the PCI
\* Express capability is not in cap_dict or the read of the register
\* LINK_STATUS_REG_OFFSET after it fails, else speed (bits 3:0), its name in
\* speed_gts and width (bits 9:4).
LinkStatusInfo(cap_dict) ==
    IF PCI_EXPRESS_CAP_ID \notin DOMAIN cap_dict
    THEN [err_msg |-> "PCI Express capability not found",
          speed |-> None, speed_gts |-> None, width |-> None]
    ELSE LET data == PciRead(cap_dict[PCI_EXPRESS_CAP_ID].offset + 18, 16).data IN
         IF data = Failed
         THEN [err_msg |-> "Couldn't read Link status",
               speed |-> None, speed_gts |-> None, width |-> None]
         ELSE LET speed == data.lo % 16
                  names == <<"2.5GT/s", "5GT/s", "8GT/s", "16GT/s", "32GT/s", "64GT/s">>
              IN  [err_msg |-> None,
                   speed |-> speed,
                   speed_gts |-> IF speed \in DOMAIN names THEN names[speed] ELSE "Unknown",
                   width |-> (data.lo \div 16) % 64]

\* The loop of create_dict_capabilities is over and get_link_status()
\* returns; the constructor of the engine returns on an error, an
\* unsupported width or an unsupported speed, and else goes on to
\* get_lmt_cap_info().
get_link_status ==
    /\ pc = "create_dict_capabilities"
    /\ ~(run.offset_next # 0 /\ run.offset_next # -1)
    /\ LET link_status == LinkStatusInfo(run.cap_dict) IN
       /\ run' = [run EXCEPT !.link_status = <<link_status>>]
       /\ pc' = IF link_status.err_msg # None THEN "returned"
                ELSE IF link_status.width \notin {1, 2, 4, 8, 16, 32, 64} THEN "returned"
                ELSE IF link_status.speed_gts \notin {"16GT/s", "32GT/s", "64GT/s"} THEN "returned"
                ELSE "get_lmt_cap_info"
    /\ UNCHANGED <<device_list, ctrl, hw, touched, last>>

\* get_lmt_cap_info() enters create_dict_extended_capabilities():
\* offset_next = self.EXTENDED_CAPABILITIES_POINTER.
create_dict_extended_capabilities ==
    /\ pc = "get_lmt_cap_info"
    /\ run' = [run EXCEPT !.offset_next = EXTENDED_CAPABILITIES_POINTER, !.decoded = {}]
    /\ pc' = "create_dict_extended_capabilities"
    /\ UNCHANGED <<device_list, ctrl, hw, touched, last>>

\* One iteration of   while offset_next != 0 and offset_next != -1:
\* of create_dict_extended_capabilities.  After a failed read offset_next is
\* None, the loop goes on and self.read(address=None) raises TypeError at
\* its comparison address < 0.
create_dict_extended_capabilities_loop ==
    /\ pc = "create_dict_extended_capabilities"
    /\ run.offset_next # 0 /\ run.offset_next # -1
    /\ IF run.offset_next = NoOffset
       THEN /\ pc' = "raised"
            /\ run' = [run EXCEPT !.exc = "TypeError"]
       ELSE /\ LET cap_info == decode_extended_capability(run.offset_next) IN
               run' = [run EXCEPT !.ext_cap_dict = SetItem(@, cap_info.id, cap_info),
                                  !.ext_cap_keys = IF cap_info.id \in DOMAIN run.ext_cap_dict
                                                   THEN @ ELSE Append(@, cap_info.id),
                                  !.offset_next = cap_info.offset_next,
                                  !.twice = @ \/ run.offset_next \in run.decoded,
                                  !.decoded = @ \cup {run.offset_next}]
            /\ pc' = pc
    /\ UNCHANGED <<device_list, ctrl, hw, touched, last>>

\* The loop of create_dict_extended_capabilities is over and
\* get_lmt_cap_info() returns the entry of the Lane Margining capability, or
\* an error if ext_cap_dict has none.
get_lmt_cap_info ==
    /\ pc = "create_dict_extended_capabilities"
    /\ ~(run.offset_next # 0 /\ run.offset_next # -1)
    /\ run' = [run EXCEPT !.lmt_cap_info =
                  IF PCI_LMT_EXT_CAP_ID \notin DOMAIN run.ext_cap_dict
                  THEN <<[err_msg |-> "PCI LMT capability not found", id |-> NoId,
                          version |-> None, offset |-> None, offset_next |-> NoOffset]>>
                  ELSE <<run.ext_cap_dict[PCI_LMT_EXT_CAP_ID]>>]
    /\ pc' = "returned"
    /\ UNCHANGED <<device_list, ctrl, hw, touched, last>>

NextCap ==
    \/ create_dict_capabilities
    \/ create_dict_capabilities_loop
    \/ get_link_status
    \/ create_dict_extended_capabilities
    \/ create_dict_extended_capabilities_loop
    \/ get_lmt_cap_info

\* PciLib runs in the one thread of the program, which goes on to its next
\* statement whenever it has one.
FairSpecCap == InitCap /\ [][NextCap]_vars /\ WF_vars(NextCap)

----------------------------------------------------------------------------
(* PciLib.read and PciLib.write called with any arguments.  hw is the      *)
(* configuration space, the content Failed standing for an address at      *)
(* which os.popen raises; run is the last call with what it returned.      *)

InitIo ==
    /\ pc = "idle"
    /\ hw \in [{255, 4094} -> {[hi |-> 0, lo |-> 0], [hi |-> 43981, lo |-> 4660], Failed}]
    /\ run = [op |-> "none"]
    /\ device_list = <<>>
    /\ ctrl = <<>>
    /\ touched = <<>>
    /\ last = NoCall

\* self.read(address=address, width=width)
PciLib_read ==
    /\ \E address \in {-1, 0, 255, 4094, 4095, 65535}, width \in {8, 16, 32, 64} :
          LET r == PciRead(address, width) IN
          run' = [op |-> "read", address |-> address, width |-> width,
                  before |-> hw, data |-> r.data, popen |-> r.popen]
    /\ UNCHANGED <<pc, hw, device_list, ctrl, touched, last>>

\* self.write(address=address, data=data, width=width)
PciLib_write ==
    /\ \E address \in {-1, 0, 255, 4094, 4095, 65535}, width \in {8, 16, 32, 64},
          data \in {[hi |-> 0, lo |-> 0]} :
          LET w == PciWrite(address, data, width) IN
          /\ run' = [op |-> "write", address |-> address, width |-> width,
                     before |-> hw, ret |-> w.ret, popen |-> w.popen]
          /\ hw' = w.space
    /\ UNCHANGED <<pc, device_list, ctrl, touched, last>>

SpecIo == InitIo /\ [][PciLib_read \/ PciLib_write]_vars

----------------------------------------------------------------------------
(* Properties of the engine.                                               *)

\* What the decorator of the handle's class takes for a fault.
DeviceFault(h) == IF h.cls = "PCIe_LMT" THEN h.device_error # None ELSE Truthy(h.device_error)
LaneFault(h, lane) ==
    /\ h.has_lane_errors
    /\ IF h.cls = "PCIe_LMT" THEN h.lane_errors[lane] # None ELSE Truthy(h.lane_errors[lane])
Sound(h, lane) == ~DeviceFault(h) /\ h.has_lane_errors /\ ~LaneFault(h, lane)

\* The accessor call e of the last operation is a read of the Lane Status
\* register of the lane that did not fail.
StatusRead(e) ==
    /\ e.op = "read"
    /\ e.address = last.pre.cap_lmt_offset + 10 + 4 * last.lane
    /\ e.data # -1
ExecStatus(e) == Bits(e.data, 14, 2)
TypeStatus(e) == Bits(e.data, 3, 3)

\* C1: an operation called on a lane whose lane_errors entry is set returns
\* exactly the cached error, makes no accessor call, raises nothing and
\* leaves the handle (lane_errors, device_info) as it was, whatever the
\* operation, its arguments and the number of calls made before.
C1_CachedFaultShortCircuits ==
    (pc = "returned" /\ ~DeviceFault(last.pre) /\ LaneFault(last.pre, last.lane))
    => /\ last.exc = None
       /\ last.ret = [error |-> last.pre.lane_errors[last.lane]]
       /\ last.io = <<>>
       /\ device_list[last.d] = last.pre

\* A timing step with a receiver number it would reject, on a faulty lane.
C1_Witness ==
    /\ pc = "returned"
    /\ last.op = "step_margin_timing_offset_right_left_of_default"
    /\ last.args.receiver_number = 0
    /\ ~DeviceFault(last.pre)
    /\ LaneFault(last.pre, last.lane)
    /\ last.ret.error = "ERROR: NoCommand - Timedout"

\* C2: a device whose construction set device_error is never read or
\* written through the accessor, and every operation on it returns that
\* device_error.
C2_DeviceErrorIsolatesTheDevice ==
    /\ \A d \in DOMAIN device_list : DeviceFault(device_list[d]) => ~touched[d]
    /\ (pc = "returned" /\ DeviceFault(last.pre))
       => /\ last.exc = None
          /\ last.ret = [error |-> last.pre.device_error]
          /\ last.io = <<>>
          /\ device_list[last.d] = last.pre

\* A capability fetch on a device whose link speed is not supported.
C2_Witness ==
    /\ pc = "returned"
    /\ last.op = "fetch_margin_control_capabilities"
    /\ last.pre.cls = "PcieDeviceLaneMargining"
    /\ last.ret.error = "BDF:01:00.0 Unsupported link speed 8GT/s"
    /\ ~touched[last.d]

\* C3: an operation on a device without device_error and a lane without a
\* cached fault raises no exception under any behaviour of the hardware,
\* returns a dict with the key "error", and when that error is set
\* lane_errors[lane] equals it on return.
C3_EveryOperationReturnsATaggedResult ==
    (pc = "returned" /\ Sound(last.pre, last.lane))
    => /\ last.exc = None
       /\ "error" \in DOMAIN last.ret
       /\ Truthy(last.ret.error) => device_list[last.d].lane_errors[last.lane] = last.ret.error

\* The MarginType of the last step call does not fit the capabilities the
\* handle holds.
Inconsistent ==
    \/ /\ last.op = "step_margin_timing_offset_right_left_of_default"
       /\ IF Truthy2(last.pre.device_info.ind_left_right_timing)
          THEN last.args.margin_type = "TIMING_NONE"
          ELSE last.args.margin_type \in {"TIMING_RIGHT", "TIMING_LEFT"}
    \/ /\ last.op = "step_margin_voltage_offset_up_down_of_default"
       /\ IF Truthy2(last.pre.device_info.ind_up_down_voltage)
          THEN last.args.margin_type = "VOLTAGE_NONE"
          ELSE last.args.margin_type \in {"VOLTAGE_UP", "VOLTAGE_DOWN"}

\* C6: a step-margin call of PcieDeviceLaneMargining whose MarginType does not
\* fit the fetched capabilities returns an error, caches it as the fault of
\* the lane and makes no accessor call at all.
C6_InconsistentMarginTypeNeverReachesTheHardware ==
    (pc = "returned" /\ Sound(last.pre, last.lane) /\ Inconsistent)
    => /\ last.exc = None
       /\ Truthy(last.ret.error)
       /\ device_list[last.d].lane_errors[last.lane] = last.ret.error
       /\ last.io = <<>>

\* TIMING_NONE asked of a Receiver that reported independent left/right
\* timing.
C6_Witness ==
    /\ pc = "returned"
    /\ Sound(last.pre, last.lane)
    /\ last.op = "step_margin_timing_offset_right_left_of_default"
    /\ last.pre.device_info.ind_left_right_timing = 1
    /\ last.args.margin_type = "TIMING_NONE"
    /\ last.args.receiver_number = 1
    /\ last.io = <<>>

\* The Margin Type a decode operation waits for.
IssuedType ==
    IF last.op \in {"decode_step_margin_timing_offset_right_left_of_default",
                    "decode_StepMarginTimingOffsetRightLeftOfDefault"}
    THEN 3 ELSE 4

\* C7: in decode_step_margin_*_of_default, a status read that shows the
\* issued Margin Type with execution status 3 is the last accessor call of
\* the operation, and the operation returns the 'unsupported operation'
\* error.
C7_NakEndsTheDecode ==
    (/\ pc = "returned"
     /\ last.op \in {"decode_step_margin_timing_offset_right_left_of_default",
                      "decode_step_margin_voltage_offset_up_down_of_default"}
     /\ Sound(last.pre, last.lane))
    => \A i \in 1 .. Len(last.io) :
          (StatusRead(last.io[i]) /\ TypeStatus(last.io[i]) = IssuedType /\ ExecStatus(last.io[i]) = 3)
          => /\ i = Len(last.io)
             /\ last.exc = None
             /\ last.ret = [error |-> "ERROR: " \o
                    (IF IssuedType = 3 THEN "decode_StepMarginTimingOffsetRightLeftOfDefault"
                     ELSE "decode_StepMarginVoltageOffsetUpDownOfDefault") \o " - unsupported operation"]

\* C8: a decode of a step-margin response returns success only if its last
\* status read showed the issued Margin Type with execution status 2, and
\* then error_count is the low 6 bits of the payload of that read; if no
\* status read showed the issued type with execution status 2 or 3, it
\* returns the timeout error, without error_count.
C8_SuccessOnlyWhenMarginingInProgress ==
    (/\ pc = "returned"
     /\ last.op \in {"decode_step_margin_timing_offset_right_left_of_default",
                      "decode_step_margin_voltage_offset_up_down_of_default",
                      "decode_StepMarginTimingOffsetRightLeftOfDefault",
                      "decode_StepMarginVoltageOffsetUpDownOfDefault"}
     /\ Sound(last.pre, last.lane)
     /\ last.exc = None)
    => /\ last.ret.error = None
          => /\ Len(last.io) > 0
             /\ StatusRead(last.io[Len(last.io)])
             /\ TypeStatus(last.io[Len(last.io)]) = IssuedType
             /\ ExecStatus(last.io[Len(last.io)]) = 2
             /\ last.ret.error_count = Bits(last.io[Len(last.io)].data, 8, 6)
       /\ (\A i \in 1 .. Len(last.io) :
               /\ StatusRead(last.io[i])
               /\ ~(TypeStatus(last.io[i]) = IssuedType /\ ExecStatus(last.io[i]) \in {2, 3}))
          => /\ Truthy(last.ret.error)
             /\ DOMAIN last.ret = {"error"}

----------------------------------------------------------------------------
(* Properties of a run of the collector.                                   *)

\* The priming phase (infoLaneMarginOnDeviceList) has returned.
AfterPriming == pc \in {"noCommand2", "clearErrorLog", "normalSettings", "setup", "collect", "done"}

\* C4: for every LaneResult of collectLaneMarginOnDeviceList: when the step
\* call and FetchSampleCount both returned without error and the stepper's
\* error_count is positive, error is false and ber * sample_count_bits equals
\* error_count; when both returned without error and error_count is 0,
\* error is false and ber is 0; when either returned an error, error is true
\* and ber, sample_count, sample_count_bits and error_count keep the default -1.
C4_BerFollowsTheTwoCalls ==
    \A i \in 1 .. Len(run.results) :
        LET res == run.results[i]
            stepper == run.calls[i].stepper
            sampler == run.calls[i].sampler
            both == stepper.error = None /\ sampler.error = None
        IN  /\ (both /\ stepper.error_count > 0)
               => /\ res.error = FALSE
                  /\ res.ber.den > 0
                  /\ res.ber.num * sampler.sample_count_bits = stepper.error_count * res.ber.den
                  /\ res.error_count = stepper.error_count
                  /\ res.sample_count_bits = sampler.sample_count_bits
            /\ (both /\ stepper.error_count = 0)
               => /\ res.error = FALSE
                  /\ res.ber = Float(0, 1)
            /\ ~both
               => /\ res.error = TRUE
                  /\ res.ber = Float(-1, 1)
                  /\ res.sample_count = -1
                  /\ res.sample_count_bits = -1
                  /\ res.error_count = -1

\* A run that has produced a LaneResult with 3 errors in 5 bits and a
\* LaneResult with error set.
C4_Witness ==
    /\ \E i \in 1 .. Len(run.results) :
          /\ run.results[i].error = FALSE
          /\ run.results[i].error_count = 3
          /\ run.results[i].ber = [num |-> 3, den |-> 5]
    /\ \E j \in 1 .. Len(run.results) : run.results[j].error = TRUE

\* C5: a LaneResult with error set carries the error of the step call if
\* that call returned one and else the error of FetchSampleCount; the message
\* is not empty, and it is the fault cached for the lane (or the
\* device_error of the device).
C5_ErrorMsgIsTheFirstError ==
    \A i \in 1 .. Len(run.results) :
        LET res == run.results[i]
            stepper == run.calls[i].stepper
            sampler == run.calls[i].sampler
            h == device_list[res.d]
        IN  res.error = TRUE
            => /\ res.error_msg = IF Truthy(stepper.error) THEN stepper.error ELSE sampler.error
               /\ Truthy(res.error_msg)
               /\ IF DeviceFault(h) THEN res.error_msg = h.device_error
                  ELSE h.has_lane_errors /\ h.lane_errors[res.lane] = res.error_msg

\* The step call succeeded and FetchSampleCount timed out.
C5_Witness ==
    \E i \in 1 .. Len(run.results) :
        /\ run.results[i].error = TRUE
        /\ run.calls[i].stepper.error = None
        /\ run.results[i].error_msg = "ERROR: FetchSampleCount - timedout"

\* C9: once the priming phase has returned, a device is primed exactly when
\* its capability fetch on lane 0 returned without error and it reported
\* ind_error_sampler = 1 (the collector has no option that forces margining
\* on other samplers); a device whose fetch succeeded with
\* ind_error_sampler = 0 is not primed and all its lanes are faulty.
C9_PrimedOnlyWithIndependentSampler ==
    AfterPriming
    => \A d \in DOMAIN device_list :
          LET h == device_list[d]
              fetched == run.cap_ret[d].returned /\ run.cap_ret[d].error = None
          IN  /\ h.primed <=> (fetched /\ h.device_info.ind_error_sampler = 1)
              /\ (fetched /\ h.device_info.ind_error_sampler = 0)
                 => /\ ~h.primed
                    /\ \A l \in 0 .. h.device_info.width - 1 : LaneFault(h, l)

\* C10: once the capability fetch on lane 0 of a device has returned an
\* error, the device is not primed, lane_errors of each of its lanes holds
\* that error, no sweep (NoCommand, ClearErrorLog, GotoNormalSettings,
\* SetErrorCountLimit) calls the engine for it, and each of its LaneResults
\* has error set, that error as error_msg and ber at its default.
C10_FailedFetchFaultsEveryLane ==
    \A d \in DOMAIN device_list :
        LET h == device_list[d] IN
        (run.cap_ret[d].returned /\ run.cap_ret[d].error # None)
        => /\ ~h.primed
           /\ \A l \in 0 .. h.device_info.width - 1 :
                 h.has_lane_errors /\ h.lane_errors[l] = run.cap_ret[d].error
           /\ run.swept[d] = {}
           /\ \A i \in 1 .. Len(run.results) :
                 run.results[i].d = d
                 => /\ run.results[i].error = TRUE
                    /\ run.results[i].error_msg = run.cap_ret[d].error
                    /\ run.results[i].ber = Float(-1, 1)

\* The run is over: collectLmtOnBDFs has returned or an exception has left it.
RunOver == pc \in {"done", "crashed"}

\* A run over one constructed device whose Receiver reports an independent
\* error sampler and independent left/right timing and answers every call
\* undisturbed, for a group TIMING / right with step 6 and a Receiver Number
\* the engine accepts.
C11_Scenario ==
    /\ NumDevices = 1
    /\ ~DeviceFault(device_list[1])
    /\ device_list[1].device_info.width > 0
    /\ Bits(hw[1].caps, 2, 1) = 1
    /\ Bits(hw[1].caps, 4, 1) = 1
    /\ run.voltage_or_timing = "TIMING"
    /\ run.left_right_none = get_margin_directions("TIMING", "right").left_right_none
    /\ run.steps = 6
    /\ run.receiver_number \in ReceiverRange1
    /\ run.quiet

\* C11: a run of a group TIMING / right / step 6 over one device whose
\* Receiver answers every command correctly with ind_error_sampler = 1 and
\* ind_left_right_timing = 1 ends with the device primed and exactly one
\* LaneResult per lane, in lane order, each with margin_type "timing_right",
\* step 6 and error false.
C11_TimingRightEndToEnd ==
    (RunOver /\ C11_Scenario)
    => /\ pc = "done"
       /\ device_list[1].primed
       /\ Len(run.results) = device_list[1].device_info.width
       /\ \A i \in 1 .. Len(run.results) :
             /\ run.results[i].d = 1
             /\ run.results[i].lane = i - 1
             /\ run.results[i].margin_type = "timing_right"
             /\ run.results[i].step = 6
             /\ run.results[i].error = FALSE

\* The same for the pair lib/pci_lmt_wrapper.py over lib/pci_lmt_lib.py only.
C11_LegacyPair ==
    device_list # <<>> /\ device_list[1].cls = "PCIe_LMT" => C11_TimingRightEndToEnd

\* The lanes of the link of device d, as the hardware has them.
LinkLanes(d) == DOMAIN ctrl[d]

\* run.results holds exactly one LaneResult for each lane of each device of
\* bdf_list, ordered by device and then by lane, each with the
\* receiver_number and the step of the run.
OneResultPerLane ==
    /\ \A d \in DOMAIN device_list : \A l \in LinkLanes(d) :
          Cardinality({ i \in 1 .. Len(run.results) :
                          run.results[i].d = d /\ run.results[i].lane = l }) = 1
    /\ \A i \in 1 .. Len(run.results) :
          /\ run.results[i].d \in DOMAIN device_list
          /\ run.results[i].lane \in LinkLanes(run.results[i].d)
          /\ run.results[i].receiver_number = run.receiver_number
          /\ run.results[i].step = run.steps
    /\ \A i, j \in 1 .. Len(run.results) :
          i < j => \/ run.results[i].d < run.results[j].d
                   \/ /\ run.results[i].d = run.results[j].d
                      /\ run.results[i].lane < run.results[j].lane

\* C12: for any group and step, the run of collectLmtOnBDFs yields a result
\* list with exactly one LaneResult for each lane of each device of bdf_list,
\* primed or not and faulty or not, ordered by bdf_list position and then by
\* lane, each with the group's receiver_number and the step.
C12_EveryLaneYieldsOneResult ==
    RunOver => (pc = "done" /\ OneResultPerLane)

\* The same for the runs whose collectLmtOnBDFs returns.
C12_WhenTheRunReturns ==
    pc = "done" => OneResultPerLane

\* A run that has returned results for two devices, one of them not primed.
C12_ReturnedWithUnprimedDevice ==
    /\ pc = "done"
    /\ NumDevices = 2
    /\ \E d \in DOMAIN device_list : ~device_list[d].primed
    /\ Len(run.results) >= 2

\* C13: when the run is over, for every device of bdf_list whose
\* construction set device_error (link down, unsupported width, unsupported
\* speed, missing capability) the results hold at least one LaneResult of
\* that device with error set and error_msg equal to its device_error.
C13_DeviceErrorReachesTheResults ==
    RunOver
    => \A d \in DOMAIN device_list :
          DeviceFault(device_list[d])
          => \E i \in 1 .. Len(run.results) :
                /\ run.results[i].d = d
                /\ run.results[i].error = TRUE
                /\ run.results[i].error_msg = device_list[d].device_error

\* No run over a device with device_error returns: each ends by an exception.
C13_FaultyDeviceEndsTheRun ==
    (RunOver /\ \E d \in DOMAIN device_list : DeviceFault(device_list[d])) => pc = "crashed"

----------------------------------------------------------------------------
(* Properties of the capability lists.                                     *)

\* The traversals are over: the constructor has its answer or an exception.
TraversalOver == pc \in {"returned", "raised"}

\* No address has been decoded a second time by one traversal.
C14_NoOffsetDecodedTwice == ~run.twice

\* C14: the traversal of the capability list and of the extended capability
\* list terminates for every content of the configuration space, cyclic
\* next pointers included, and never decodes the same offset twice.
C14_TraversalTerminates ==
    [](~run.twice) /\ <>TraversalOver

\* The termination alone.
C14_Terminates == <>TraversalOver

\* The traversals of a well-formed configuration space end, having found the
\* PCI Express capability and the Lane Margining extended capability.
C14_WellFormedListsEnd ==
    /\ pc = "returned"
    /\ ~run.twice
    /\ PCI_EXPRESS_CAP_ID \in DOMAIN run.cap_dict
    /\ PCI_LMT_EXT_CAP_ID \in DOMAIN run.ext_cap_dict
    /\ Cardinality(DOMAIN run.ext_cap_dict) = 2

----------------------------------------------------------------------------
(* Properties of fetch_sample_count.                                       *)

----------------------------------------------------------------------------
(* Properties of the polling loops.                                        *)

\* The payload and the Receiver Number of a status read.
PayloadStatus(e) == Bits(e.data, 8, 8)
ReceiverNumberStatus(e) == Bits(e.data, 0, 3)

\* The response that completes the operation last.op.
Completes(e) ==
    CASE last.op = "no_command" -> ReceiverNumberStatus(e) = 0 /\ PayloadStatus(e) = 156
      [] last.op = "goto_normal_settings" -> TypeStatus(e) = 2 /\ PayloadStatus(e) = 15
      [] last.op = "clear_error_log" -> TypeStatus(e) = 2 /\ PayloadStatus(e) = 85

\* C16: no_command, goto_normal_settings and clear_error_log return without
\* error only if their last status read showed the whole expected response:
\* Receiver Number 0 and payload 0x9C for no_command, Margin Type 2 and
\* payload 0x0F for goto_normal_settings, Margin Type 2 and payload 0x55 for
\* clear_error_log.
C16_SuccessNeedsTheWholeResponse ==
    (/\ pc = "returned"
     /\ last.op \in {"no_command", "goto_normal_settings", "clear_error_log"}
     /\ last.exc = None
     /\ last.ret.error = None)
    => /\ StatusRead(last.io[Len(last.io)])
       /\ Completes(last.io[Len(last.io)])

----------------------------------------------------------------------------
(* Properties of the construction.                                         *)

\* The link of the device cannot be margined.
Unsupported(device) ==
    \/ device.link_err # ""
    \/ device.width \notin {1, 2, 4, 8, 16, 32, 64}
    \/ device.speed \notin {"16GT/s", "32GT/s", "64GT/s"}
    \/ device.lmt_err # ""

\* C17: the constructor sets device_error exactly when the link status
\* cannot be obtained, the width is not one of 1, 2, 4, 8, 16, 32, 64, the
\* speed is not 16, 32 or 64 GT/s or the Lane Margining capability is
\* missing; otherwise lane_errors has one entry per lane of the link, each
\* unset.  primed is false after every construction.
C17_DeviceErrorIffUnsupported ==
    pc = "idle"
    => LET h == device_list[1] IN
       /\ DeviceFault(h) <=> Unsupported(hw[1])
       /\ ~h.primed
       /\ ~Unsupported(hw[1])
          => /\ h.has_lane_errors
             /\ DOMAIN h.lane_errors = 0 .. hw[1].width - 1
             /\ \A l \in DOMAIN h.lane_errors : ~Truthy(h.lane_errors[l])
             /\ h.device_info.width = hw[1].width
             /\ ~h.width_is_str

\* A handle constructed for a x4 link at 32GT/s with the capability.
C17_Witness ==
    /\ pc = "idle"
    /\ device_list[1].cls = "PcieDeviceLaneMargining"
    /\ ~DeviceFault(device_list[1])
    /\ hw[1].width = 4
    /\ hw[1].speed = "32GT/s"
    /\ Cardinality(DOMAIN device_list[1].lane_errors) = 4

----------------------------------------------------------------------------
(* Properties of run_lmt.                                                  *)

ValidPair(cfg) ==
    <<cfg.margin_type, cfg.margin_direction>> \in
        {<<"TIMING", "right">>, <<"TIMING", "left">>, <<"VOLTAGE", "up">>, <<"VOLTAGE", "down">>}

HasInvalidGroup == \E i \in DOMAIN run.file.lmt_groups : ~ValidPair(run.file.lmt_groups[i])

\* C18: a configuration with a group whose (margin_type, margin_direction)
\* pair is not one of the four valid ones is rejected when it is loaded: no
\* device is margined and no result is produced for any of its groups, the
\* groups before the invalid one included.
C18_InvalidConfigurationRejectedAtLoad ==
    HasInvalidGroup =>
        /\ run.collected = 0
        /\ run.forwarded = 0
        /\ run.stdout = <<>>

\* The concatenation of a sequence of sequences.
RECURSIVE Concat(_)
Concat(seqs) == IF seqs = <<>> THEN <<>> ELSE Head(seqs) \o Concat(Tail(seqs))

\* What the Reporter is to see of one step of a group: the step scope with
\* one write for each LaneResult (one for each device of bdf_list here).
StepEvents(cfg) ==
    <<"start_step">> \o [i \in DOMAIN cfg.bdf_list |-> "write"] \o <<"end_step">>

RunEvents(platform_config) ==
    <<"start_run">>
    \o Concat([g \in DOMAIN platform_config.lmt_groups |->
                 Concat([k \in DOMAIN platform_config.lmt_groups[g].margin_steps |->
                           StepEvents(platform_config.lmt_groups[g])])])
    \o <<"end_run">>

\* C19: over one run the Reporter sees start_run, then for each group in the
\* order of the configuration and each step in the order of margin_steps
\* start_step, one write for each LaneResult and end_step, and end_run at
\* the end; what it has seen at any moment is a beginning of that sequence.
C19_ReporterSeesTheRun ==
    /\ Len(run.reporter.events) <= Len(RunEvents(run.platform_config))
    /\ run.reporter.events = SubSeq(RunEvents(run.platform_config), 1, Len(run.reporter.events))
    /\ pc = "returned" => run.reporter.events = RunEvents(run.platform_config)

\* The header line of to_csv(), which no field of the result changes.
CsvHeader ==
    to_csv([test_info |-> [annotation |-> ""], device_info |-> [bdf |-> ""], step |-> 0]).header

\* C20: with csv output, whatever results the groups and steps of a run
\* have written, the header was printed once, before the first row, and
\* every write after the first printed a row alone.
C20_HeaderOnceBeforeTheRows ==
    run.output = "csv" =>
        IF run.forwarded = 0
        THEN run.stdout = <<>>
        ELSE /\ Len(run.stdout) = run.forwarded + 1
             /\ run.stdout[1] = CsvHeader
             /\ \A i \in 2 .. Len(run.stdout) : run.stdout[i] # CsvHeader

\* A csv run has returned with the rows of two groups.
C20_Witness ==
    /\ run.output = "csv"
    /\ pc = "returned"
    /\ Len(run.platform_config.lmt_groups) = 2
    /\ run.forwarded >= 4
    /\ \E i, j \in 2 .. Len(run.stdout) : run.stdout[i][1] # run.stdout[j][1]

----------------------------------------------------------------------------
(* Properties of PciLib.read and PciLib.write.                             *)

\* The arguments of the last call are ones read and write accept.
ValidArguments == run.address >= 0 /\ run.address < 4095 /\ run.width \in {8, 16, 32}

\* os.popen raised in the last call.
TransportRaised ==
    run.address \in DOMAIN run.before /\ run.before[run.address] = Failed

\* What setpci prints for the address and width of the last call.
Delivered ==
    IF run.address \notin DOMAIN run.before THEN [hi |-> 0, lo |-> 0]
    ELSE IF run.width = 32 THEN run.before[run.address]
    ELSE IF run.width = 16 THEN [hi |-> 0, lo |-> run.before[run.address].lo]
    ELSE [hi |-> 0, lo |-> run.before[run.address].lo % 256]

\* C21: read and write return -1 without an access to the transport when
\* the address is outside [0, 0xFFF) or the width is not 8, 16 or 32, and
\* return -1 when the transport raises; with valid arguments and a working
\* transport write returns 0 and read returns what the transport delivered.
C21_ReadAndWriteCheckTheirArguments ==
    /\ run.op = "read" =>
          /\ ~ValidArguments => run.data = Failed /\ run.popen = 0
          /\ ValidArguments /\ TransportRaised => run.data = Failed
          /\ ValidArguments /\ ~TransportRaised => run.data = Delivered /\ run.popen = 1
    /\ run.op = "write" =>
          /\ ~ValidArguments => run.ret = -1 /\ run.popen = 0 /\ hw = run.before
          /\ ValidArguments /\ TransportRaised => run.ret = -1 /\ hw = run.before
          /\ ValidArguments /\ ~TransportRaised => run.ret = 0 /\ run.popen = 1

\* A read with a width of 64 bits at an address that has a content.
C21_Witness ==
    /\ run.op = "read"
    /\ run.width = 64
    /\ run.address = 255
    /\ run.before[255] = [hi |-> 43981, lo |-> 4660]
    /\ run.data = Failed

----------------------------------------------------------------------------
(* Properties of what PciLib decodes.                                      *)

\* get_lmt_cap_info() has been called and is over.
LmtCapInfoOver ==
    \/ pc = "raised"
    \/ pc = "returned" /\ DOMAIN run.ext_cap_dict # {}

\* C22: the entries of cap_dict are decoded as id = bits 7:0 and next =
\* bits 15:8 masked with 0xFC and recorded under their id, those of
\* ext_cap_dict as id = bits 15:0 and next = bits 31:20; and
\* get_lmt_cap_info returns the recorded entry of id 0x27 with the offset it
\* was found at, or an error result when no such entry was recorded.
C22_CapabilitiesDecodedAndFound ==
    /\ \A k \in DOMAIN run.cap_dict \ {NoId} :
          LET e == run.cap_dict[k] IN
          /\ e.id = k
          /\ e.id = hw[e.offset].lo % 256
          /\ \E low \in 0 .. 3 : e.offset_next + low = (hw[e.offset].lo \div 256) % 256
          /\ e.offset_next % 4 = 0
    /\ \A k \in DOMAIN run.ext_cap_dict \ {NoId} :
          LET e == run.ext_cap_dict[k] IN
          /\ e.id = k
          /\ e.id = hw[e.offset].lo
          /\ e.offset_next = hw[e.offset].hi \div 16
    /\ pc = "create_dict_capabilities" /\ ~run.twice
         /\ Cardinality(run.decoded) = Len(run.cap_keys) /\ NoId \notin DOMAIN run.cap_dict =>
          /\ run.cap_keys # <<>> => run.cap_dict[run.cap_keys[1]].offset = hw[CAPABILITIES_POINTER].lo
          /\ \A j \in 1 .. Len(run.cap_keys) - 1 :
                run.cap_dict[run.cap_keys[j + 1]].offset = run.cap_dict[run.cap_keys[j]].offset_next
    /\ pc = "create_dict_extended_capabilities" /\ ~run.twice
         /\ Cardinality(run.decoded) = Len(run.ext_cap_keys) /\ NoId \notin DOMAIN run.ext_cap_dict =>
          /\ run.ext_cap_keys # <<>> =>
                run.ext_cap_dict[run.ext_cap_keys[1]].offset = EXTENDED_CAPABILITIES_POINTER
          /\ \A j \in 1 .. Len(run.ext_cap_keys) - 1 :
                run.ext_cap_dict[run.ext_cap_keys[j + 1]].offset
                    = run.ext_cap_dict[run.ext_cap_keys[j]].offset_next
    /\ LmtCapInfoOver =>
          /\ Len(run.lmt_cap_info) = 1
          /\ IF PCI_LMT_EXT_CAP_ID \in DOMAIN run.ext_cap_dict
             THEN /\ run.lmt_cap_info[1].err_msg = None
                  /\ run.lmt_cap_info[1].id = PCI_LMT_EXT_CAP_ID
                  /\ hw[run.lmt_cap_info[1].offset].lo = PCI_LMT_EXT_CAP_ID
             ELSE run.lmt_cap_info[1].err_msg # None

\* The same without the return of get_lmt_cap_info after a failed read.
C22_WhenEveryReadSucceeds ==
    (\A a \in {256, 320} : hw[a] # Failed) => C22_CapabilitiesDecodedAndFound

\* What the Link Status register of the PCI Express capability reads, or
\* Failed if cap_dict has no such capability.
LinkStatusRegister ==
    IF PCI_EXPRESS_CAP_ID \in DOMAIN run.cap_dict
    THEN hw[run.cap_dict[PCI_EXPRESS_CAP_ID].offset + 18]
    ELSE Failed

\* C23: get_link_status returns, with no error, speed = bits 3:0 and width =
\* bits 9:4 of the 16-bit register 0x12 after the PCI Express capability
\* and the name of the speed (4 16GT/s, 5 32GT/s, 6 64GT/s, Unknown for
\* codes without a name); it returns an error without speed and width when
\* the capability is not in the list or the read of the register fails.
C23_LinkStatusDecoded ==
    run.link_status # <<>> =>
        LET info == run.link_status[1] IN
        IF LinkStatusRegister = Failed
        THEN /\ info.err_msg # None
             /\ info.speed = None /\ info.speed_gts = None /\ info.width = None
        ELSE /\ info.err_msg = None
             /\ info.speed = LinkStatusRegister.lo % 16
             /\ info.width = (LinkStatusRegister.lo \div 16) % 64
             /\ info.speed = 4 => info.speed_gts = "16GT/s"
             /\ info.speed = 5 => info.speed_gts = "32GT/s"
             /\ info.speed = 6 => info.speed_gts = "64GT/s"
             /\ info.speed \notin 1 .. 6 => info.speed_gts = "Unknown"

\* get_link_status has decoded 16GT/s x32 from a register whose upper bits
\* are set, behind a PCI Express capability that is the second of the list.
C23_Witness ==
    /\ run.link_status # <<>>
    /\ run.link_status[1].err_msg = None
    /\ run.link_status[1].speed = 4
    /\ run.link_status[1].speed_gts = "16GT/s"
    /\ run.link_status[1].width = 32
    /\ LinkStatusRegister.lo = 65028
    /\ run.cap_keys = <<1, PCI_EXPRESS_CAP_ID>>

----------------------------------------------------------------------------
(* Properties of the order of the calls of one collectLmtOnBDFs.           *)

\* The four commands of the setup sweep, in the order of their sweeps.
SetupOps == <<"NoCommand", "ClearErrorLog", "GotoNormalSettings", "SetErrorCountLimit">>

SetupRank(op) == CHOOSE k \in DOMAIN SetupOps : SetupOps[k] = op

IsSetup(e) == \E k \in DOMAIN SetupOps : SetupOps[k] = e.op

\* The positions of the log that hold the call of op on a lane of device d.
At(op, d, lane) ==
    { i \in DOMAIN run.log : run.log[i].op = op /\ run.log[i].d = d /\ run.log[i].lane = lane }

Slept == { i \in DOMAIN run.log : run.log[i].op = "sleep" }

\* C24: a device that is not primed gets none of the four setup commands;
\* a primed device gets each of them after its FetchMarginControlCapabilities
\* and before the dwell, on each lane at most once and in the order
\* NoCommand, ClearErrorLog, GotoNormalSettings, SetErrorCountLimit; when
\* the dwell begins every lane of every primed device has had all four; and
\* the SetErrorCountLimit command written carries the configured limit.
C24_SetupSweepInOrder ==
    /\ \A i \in DOMAIN run.log :
          IsSetup(run.log[i]) =>
             /\ device_list[run.log[i].d].primed
             /\ \E j \in At("FetchMarginControlCapabilities", run.log[i].d, 0) : j < i
             /\ \A j \in Slept : i < j
             /\ \A j \in DOMAIN run.log :
                   (/\ j > i
                    /\ IsSetup(run.log[j])
                    /\ run.log[j].d = run.log[i].d
                    /\ run.log[j].lane = run.log[i].lane)
                   => SetupRank(run.log[j].op) > SetupRank(run.log[i].op)
             /\ run.log[i].op = "SetErrorCountLimit"
                   => run.log[i].payloads \subseteq {156, 192 + run.error_count_limit}
    /\ Slept # {} =>
          \A d \in DOMAIN device_list :
             device_list[d].primed =>
                \A lane \in 0 .. device_list[d].device_info.width - 1, k \in DOMAIN SetupOps :
                   At(SetupOps[k], d, lane) # {}

\* The dwell has begun after the sweeps over a primed device of two lanes
\* next to none, and the Receiver was sent the limit.
C24_Witness ==
    /\ Slept # {}
    /\ \E d \in DOMAIN device_list :
          /\ device_list[d].primed
          /\ device_list[d].device_info.width = 2
          /\ \E i \in At("SetErrorCountLimit", d, 1) : 242 \in run.log[i].payloads

\* C25: when FetchMarginControlCapabilities is called on a device, NoCommand
\* has been called before on every lane of every device of the list that
\* has no device_error, primed or not.
C25_NoCommandBeforePriming ==
    \A i \in DOMAIN run.log :
       run.log[i].op = "FetchMarginControlCapabilities" =>
          \A d \in DOMAIN device_list :
             (~Truthy(device_list[d].device_error) /\ ~device_list[d].width_is_str) =>
                \A lane \in 0 .. device_list[d].device_info.width - 1 :
                   \E j \in At("NoCommand", d, lane) : j < i

\* The positions of the log that hold a call of the setup sweep, and of the
\* measurement.
SetupCalls == { i \in DOMAIN run.log : IsSetup(run.log[i]) }

Measurements == { i \in DOMAIN run.log : run.log[i].op \in {"StepMargin", "FetchSampleCount"} }

C27_DwellInTheMarginedState ==
    \A i \in Measurements :
       /\ (run.log[i].op = "StepMargin" /\ run.log[i].payloads \ {156} # {})
             => \A j \in Slept : i < j
       /\ run.log[i].op = "FetchSampleCount" => \E j \in Slept : j < i

\* C28: an entry of lane_errors that is set is the same after every
\* operation, and no assignment the decorator makes during an operation,
\* the nested operations of a composite command included, replaces an entry
\* that was set by a different message.
C28_FirstFaultKept ==
    /\ [](last.op # "none" =>
             \A k \in DOMAIN last.faults :
                LET f == last.faults[k] IN Truthy(f.was) => f.error = f.was)
    /\ [][\A d \in DOMAIN device_list :
             device_list[d].has_lane_errors =>
                \A l \in DOMAIN device_list[d].lane_errors :
                   Truthy(device_list[d].lane_errors[l]) =>
                      device_list'[d].lane_errors[l] = device_list[d].lane_errors[l]]_vars

\* The same of the calls of collectLmtOnBDFs and of the loop that marks the
\* lanes of a device faulty after a failed FetchMarginControlCapabilities,
\* on hardware whose reads fail only before the polling begins.
FirstFaultKeptByTheCollector ==
    /\ [](\A i \in DOMAIN run.log : \A k \in DOMAIN run.log[i].faults :
             LET f == run.log[i].faults[k] IN Truthy(f.was) => f.error = f.was)
    /\ [][\A d \in DOMAIN device_list :
             device_list[d].has_lane_errors =>
                \A l \in DOMAIN device_list[d].lane_errors :
                   Truthy(device_list[d].lane_errors[l]) =>
                      device_list'[d].lane_errors[l] = device_list[d].lane_errors[l]]_vars

\* The calls a step has added to the log.
NewCalls == { i \in DOMAIN run'.log : i > Len(run.log) }

\* C29: a call on lane L of device D reads and writes only the Lane Control
\* and Lane Status registers of lane L of D, at cap_lmt_offset + 0x8 + 4L
\* and cap_lmt_offset + 0xA + 4L, and assigns only lane_errors[L]; a step
\* changes the handle and the registers of no device but the one it calls,
\* and of that device no entry of lane_errors but L's, unless it is the
\* failed priming of the device, which marks the lanes of that device; a
\* device is primed exactly if its own FetchMarginControlCapabilities has
\* returned without error.
C29_LanesAndDevicesAreIsolated ==
    /\ [](\A i \in DOMAIN run.log :
             LET e == run.log[i] IN
             e.op # "sleep" =>
                /\ e.addresses \subseteq { device_list[e.d].cap_lmt_offset + 8 + 4 * e.lane,
                                           device_list[e.d].cap_lmt_offset + 10 + 4 * e.lane }
                /\ \A k \in DOMAIN e.faults : e.faults[k].lane = e.lane)
    /\ [](\A d \in DOMAIN device_list :
             device_list[d].primed <=> (run.cap_ret[d].returned /\ run.cap_ret[d].error = None))
    /\ [][\A d \in DOMAIN device_list :
             (device_list'[d] # device_list[d] \/ ctrl'[d] # ctrl[d]) =>
                /\ NewCalls # {}
                /\ \A i \in NewCalls :
                      /\ run'.log[i].d = d
                      /\ \A l \in DOMAIN ctrl[d] : l # run'.log[i].lane => ctrl'[d][l] = ctrl[d][l]
                      /\ device_list[d].has_lane_errors =>
                            \A l \in DOMAIN device_list[d].lane_errors :
                               (/\ l # run'.log[i].lane
                                /\ device_list'[d].lane_errors[l] # device_list[d].lane_errors[l])
                               => /\ run'.log[i].op = "FetchMarginControlCapabilities"
                                  /\ run'.cap_ret[d].error # None
                                  /\ ~device_list'[d].primed]_vars

\* The priming of the first of two devices has failed, its lane is marked
\* faulty, and the second device, of one lane, is primed and has been swept.
C29_Witness ==
    /\ Cardinality(DOMAIN device_list) = 2
    /\ run.cap_ret[1].returned /\ run.cap_ret[1].error # None
    /\ \A l \in DOMAIN device_list[1].lane_errors : device_list[1].lane_errors[l] = run.cap_ret[1].error
    /\ device_list[2].primed
    /\ \A l \in DOMAIN device_list[2].lane_errors : device_list[2].lane_errors[l] = None
    /\ \E i \in At("SetErrorCountLimit", 2, 0) : 242 \in run.log[i].payloads

\* The devices of the list whose construction has succeeded.
Constructed(d) == device_list[d].has_lane_errors

\* The assignments to lane_errors[l] of device d that the calls of the
\* running iteration have made, the loop after a failed priming included.
RecordedNow(d, l) ==
    \/ \E i \in DOMAIN run.log :
          /\ run.log[i].d = d
          /\ \E k \in DOMAIN run.log[i].faults : run.log[i].faults[k].lane = l
    \/ run.cap_ret[d].returned /\ run.cap_ret[d].error # None

\* Every iteration starts with handles that are not primed and hold no lane
\* fault, and a lane fault a handle holds was recorded in the running
\* iteration.
FreshHandlesEachStep ==
    /\ pc = "noCommand1" =>
          \A d \in DOMAIN device_list :
             /\ ~device_list[d].primed
             /\ Constructed(d) =>
                   \A l \in DOMAIN device_list[d].lane_errors : ~Truthy(device_list[d].lane_errors[l])
    /\ \A d \in DOMAIN device_list :
          Constructed(d) =>
             \A l \in DOMAIN device_list[d].lane_errors :
                Truthy(device_list[d].lane_errors[l]) => RecordedNow(d, l)

\* C30: every iteration of the loop over the steps starts with handles that
\* are not primed and hold no lane fault; FetchMarginControlCapabilities is
\* called on lane 0 at most once per device, and exactly once on every
\* device without device_error when the iteration has ended; and a lane
\* fault a handle holds was recorded in the running iteration, never in an
\* earlier one.
C30_PrimingAttemptedAnewEachStep ==
    /\ FreshHandlesEachStep
    /\ \A d \in DOMAIN device_list :
          /\ Cardinality(At("FetchMarginControlCapabilities", d, 0)) <= 1
          /\ (pc \in {"done", "crashed"} /\ Constructed(d))
                => Cardinality(At("FetchMarginControlCapabilities", d, 0)) = 1

\* The same of the iterations in which collectLmtOnBDFs gets past
\* infoLaneMarginOnDeviceList.
C30_WhenTheIterationReturns ==
    /\ FreshHandlesEachStep
    /\ \A d \in DOMAIN device_list :
          /\ Cardinality(At("FetchMarginControlCapabilities", d, 0)) <= 1
          /\ pc \in {"noCommand2", "clearErrorLog", "normalSettings", "setup", "collect", "done"}
                => Cardinality(At("FetchMarginControlCapabilities", d, 0)) = 1

\* A second iteration has primed and measured a device whose priming failed
\* in the first.
SecondStepRecovers ==
    /\ run.step_no = 2
    /\ pc = "done"
    /\ \E d \in run.faulted_before :
          /\ device_list[d].primed
          /\ \A l \in DOMAIN device_list[d].lane_errors : device_list[d].lane_errors[l] = None
          /\ \E i \in At("FetchSampleCount", d, 0) : 143 \in run.log[i].payloads

----------------------------------------------------------------------------
(* The Receiver as a process of its own: it answers the command held by    *)
(* the Lane Control register at some later time, and the Lane Status       *)
(* register shows its last answer until then.  The operations are taken    *)
(* one register access at a time.                                          *)

MaxRxPolls == 2
MaxRxCalls == 3

\* The commands of fetch_sample_count, set_error_count_limit (limit 50),
\* goto_normal_settings and clear_error_log, the last two also broadcast.
RxCommands ==
    { [op |-> "fetch_sample_count", cmd |-> "Report", msg |-> "ERROR: FetchSampleCount - timedout",
       receiver_number |-> 1, margin_type |-> 1, margin_payload |-> 143],
      [op |-> "set_error_count_limit", cmd |-> "SetErrorCountLimit", msg |-> "ERROR: SetErrorCountLimit - timedout",
       receiver_number |-> 1, margin_type |-> 2, margin_payload |-> 192 + 50] }
    \cup { [op |-> "goto_normal_settings", cmd |-> "GotoNormalSettings", msg |-> "ERROR: GotoNormalSettings - timedout",
            receiver_number |-> rn, margin_type |-> 2, margin_payload |-> 15] : rn \in {0, 1} }
    \cup { [op |-> "clear_error_log", cmd |-> "ClearErrorLog", msg |-> "ERROR: ClearErrorLog - timedout",
            receiver_number |-> rn, margin_type |-> 2, margin_payload |-> 85] : rn \in {0, 1} }

\* What decode_margining_lane_status_register makes of the register.
StatusFields(data) ==
    [error |-> None,
     receiver_number_status |-> Bits(data, 0, 3),
     margin_type_status |-> Bits(data, 3, 3),
     usage_model_status |-> Bits(data, 6, 1),
     margin_payload_status |-> Bits(data, 8, 8)]

\* writes counts the writes of the Lane Control register, answers is the
\* write the Lane Status register answers, written the write of the command
\* of the running operation and decoded the write answered by the status
\* the operation took for its result.
InitRx ==
    /\ pc = "idle"
    /\ LET dev == Healthy("01:00.0", 1, 20, 3) IN
       /\ device_list = <<PcieDeviceLaneMargining(dev)>>
       /\ ctrl = <<CtrlOf(dev)>>
       /\ hw = <<HwOf(dev)>>
    /\ touched = <<FALSE>>
    /\ last = NoCall
    /\ run = [status |-> Word(0, 7, 156), answers |-> 0, writes |-> 0,
              command |-> [op |-> "none", cmd |-> "NoCommand", msg |-> "",
                           receiver_number |-> 0, margin_type |-> 7, margin_payload |-> 156],
              polls |-> 0, written |-> 0, decoded |-> 0, calls |-> 0,
              broadcast |-> FALSE, outcome |-> "none"]

\* The Receiver answers the command the Lane Control register holds.
Receiver ==
    /\ run.answers # run.writes
    /\ run' = [run EXCEPT !.status = ReceiverStatus([ctrl |-> ctrl[1], hw |-> hw[1]], 0),
                          !.answers = run.writes]
    /\ UNCHANGED <<pc, device_list, ctrl, hw, touched, last>>

\* An operation is called with a receiver number of its range and
\* no_command writes No Command.  On a lane with a cached fault no_command,
\* the write and the decode return the fault and the operation ends at
\* ret["margin_type_status"].
Rx_call ==
    /\ pc = "idle"
    /\ run.calls < MaxRxCalls
    /\ \E c \in RxCommands :
          IF Truthy(device_list[1].lane_errors[0])
          THEN /\ pc' = "returned"
               /\ run' = [run EXCEPT !.command = c, !.calls = @ + 1, !.outcome = "KeyError"]
               /\ UNCHANGED ctrl
          ELSE /\ pc' = "no_command"
               /\ ctrl' = [ctrl EXCEPT ![1][0] = Word(0, 7, 156)]
               /\ run' = [run EXCEPT !.command = c, !.calls = @ + 1, !.writes = @ + 1, !.polls = 0,
                                     !.broadcast = @ \/ c.receiver_number = 0]
    /\ UNCHANGED <<device_list, hw, touched, last>>

\* One decode of the loop of no_command.  The first decode is made before
\* the loop; after every later one the time is tested first.  The fault of
\* a timeout is cached by the decorator, and the operation ends as on a
\* lane with a cached fault.
Rx_poll_no_command ==
    /\ pc = "no_command"
    /\ \E timeout \in BOOLEAN :
          IF run.polls > 0 /\ timeout
          THEN /\ pc' = "returned"
               /\ device_list' = [device_list EXCEPT ![1].lane_errors[0] = "ERROR: NoCommand - Timedout"]
               /\ run' = [run EXCEPT !.outcome = "KeyError"]
          ELSE IF Waiting("NoCommand", StatusFields(run.status))
          THEN /\ run.polls < MaxRxPolls
               /\ run' = [run EXCEPT !.polls = @ + 1]
               /\ UNCHANGED <<pc, device_list>>
          ELSE /\ pc' = "write"
               /\ UNCHANGED <<run, device_list>>
    /\ UNCHANGED <<ctrl, hw, touched, last>>

\* The write of the command.
Rx_write_command ==
    /\ pc = "write"
    /\ pc' = "command"
    /\ ctrl' = [ctrl EXCEPT ![1][0] = Word(run.command.receiver_number, run.command.margin_type,
                                             run.command.margin_payload)]
    /\ run' = [run EXCEPT !.writes = @ + 1, !.written = run.writes + 1, !.polls = 0]
    /\ UNCHANGED <<device_list, hw, touched, last>>

\* One decode of the loop of the operation.
Rx_poll_command ==
    /\ pc = "command"
    /\ \E timeout \in BOOLEAN :
          IF run.polls > 0 /\ timeout
          THEN /\ pc' = "returned"
               /\ device_list' = [device_list EXCEPT ![1].lane_errors[0] = run.command.msg]
               /\ run' = [run EXCEPT !.outcome = "error"]
          ELSE IF Waiting(run.command.cmd, StatusFields(run.status))
          THEN /\ run.polls < MaxRxPolls
               /\ run' = [run EXCEPT !.polls = @ + 1]
               /\ UNCHANGED <<pc, device_list>>
          ELSE /\ pc' = "returned"
               /\ run' = [run EXCEPT !.outcome = "success", !.decoded = run.answers]
               /\ UNCHANGED device_list
    /\ UNCHANGED <<ctrl, hw, touched, last>>

Rx_return ==
    /\ pc = "returned"
    /\ pc' = "idle"
    /\ run' = [run EXCEPT !.outcome = "none"]
    /\ UNCHANGED <<device_list, ctrl, hw, touched, last>>

SpecRx ==
    InitRx /\ [][Receiver \/ Rx_call \/ Rx_poll_no_command \/ Rx_write_command
                 \/ Rx_poll_command \/ Rx_return]_vars

----------------------------------------------------------------------------------------------------------------------------------------
(* OcptvReporter of results.py.  step is the _step of the reporter: 0 for  *)
(* None, else the place of the open step among the steps added to the run. *)
(* A step added is RUNNING until it is ended with a status.                *)

MaxReporterSteps == 3
MaxMeasurements == 2

\* __init__
OcptvReporter == [step |-> 0, steps |-> <<>>, measurements |-> <<>>]

\* start_step up to its yield.
start_step(rep, name) ==
    IF rep.step # 0
    THEN [rep |-> rep, exc |-> "RuntimeError"]
    ELSE [rep |-> [rep EXCEPT !.steps = Append(@, [name |-> name, status |-> "RUNNING"]),
                              !.step = Len(rep.steps) + 1],
          exc |-> None]

\* start_step without its finally clause.
start_step_resumed_without_finally(rep, thrown) ==
    IF thrown = None
    THEN [rep |-> [rep EXCEPT !.steps[rep.step].status = "COMPLETE", !.step = 0], exc |-> None]
    ELSE IF thrown = "TestStepError"
    THEN [rep |-> [rep EXCEPT !.steps[rep.step].status = "ERROR", !.step = 0], exc |-> None]
    ELSE [rep |-> rep, exc |-> thrown]

\* start_step from its yield on, when the scope is left normally (thrown
\* is None) or by an exception: a TestStepError ends the step with the
\* status it carries and is not passed on, any other exception is passed on
\* with the step not ended, and the finally clause forgets the step.
start_step_resumed(rep, thrown) ==
    IF thrown = None
    THEN [rep |-> [rep EXCEPT !.steps[rep.step].status = "COMPLETE", !.step = 0], exc |-> None]
    ELSE IF thrown = "TestStepError"
    THEN [rep |-> [rep EXCEPT !.steps[rep.step].status = "ERROR", !.step = 0], exc |-> None]
    ELSE [rep |-> [rep EXCEPT !.step = 0], exc |-> thrown]

\* write
OcptvReporter_write(rep, result) ==
    IF rep.step = 0
    THEN [rep |-> rep, exc |-> "RuntimeError"]
    ELSE [rep |-> [rep EXCEPT !.measurements = Append(@, [step |-> rep.step, name |-> result.name,
                                                            value |-> result.ber])],
          exc |-> None]

\* The caller is outside every step scope or inside one.
InitRep ==
    /\ pc = "outside"
    /\ run = [rep |-> OcptvReporter]
    /\ last = [op |-> "none", exc |-> None, thrown |-> None]
    /\ device_list = <<>> /\ ctrl = <<>> /\ hw = <<>> /\ touched = <<>>

\* with reporter.start_step(name): called outside a scope, or inside one,
\* where the caller may catch the error or leave the scope by it.
Rep_start_step ==
    /\ Len(run.rep.steps) < MaxReporterSteps
    /\ \E name \in {"Rcvr1_Step6", "Rcvr1_Step7"} :
          LET r == start_step(run.rep, name) IN
          /\ run' = [run EXCEPT !.rep = r.rep]
          /\ last' = [op |-> "start_step", exc |-> r.exc, thrown |-> None]
          /\ pc' = IF r.exc = None THEN "inside" ELSE pc
    /\ UNCHANGED <<device_list, ctrl, hw, touched>>

Rep_write ==
    /\ Len(run.rep.measurements) < MaxMeasurements
    /\ \E result \in {[name |-> "BDF:01:00.0 Lane:0", ber |-> 0],
                       [name |-> "BDF:01:00.0 Lane:1", ber |-> 1]} :
          LET r == OcptvReporter_write(run.rep, result) IN
          /\ run' = [run EXCEPT !.rep = r.rep]
          /\ last' = [op |-> "write", exc |-> r.exc, thrown |-> None]
    /\ UNCHANGED <<pc, device_list, ctrl, hw, touched>>

\* The scope is left, normally or by an exception raised inside it.
Rep_exit ==
    /\ pc = "inside"
    /\ \E thrown \in {None, "TestStepError", "RuntimeError", "KeyError"} :
          LET r == start_step_resumed(run.rep, thrown) IN
          /\ run' = [run EXCEPT !.rep = r.rep]
          /\ last' = [op |-> "exit", exc |-> r.exc, thrown |-> thrown]
    /\ pc' = "outside"
    /\ UNCHANGED <<device_list, ctrl, hw, touched>>

SpecRep == InitRep /\ [][Rep_start_step \/ Rep_write \/ Rep_exit]_vars

----------------
(* Properties of the register accesses.                                    *)

\* C31: write_margining_lane_control_register on a sound lane reads the Lane
\* Control register at cap_lmt_offset + 0x8 + 4 * lane; if the read fails it
\* writes nothing and returns an error; otherwise it writes to the same
\* address a 16-bit value with receiver_number & 0x7 in bits 2:0,
\* margin_type & 0x7 in bits 5:3, usage_model & 0x1 in bit 6, bit 7 as read
\* and margin_payload & 0xFF in bits 15:8.
\* decode_margining_lane_status_register reads cap_lmt_offset + 0xA +
\* 4 * lane and returns the fields of the same positions.
C31_RegisterLayout ==
    (pc = "returned" /\ Sound(last.pre, last.lane)) =>
       /\ last.op = "write_margining_lane_control_register" =>
             /\ Len(last.io) >= 1
             /\ last.io[1].op = "read"
             /\ last.io[1].address = last.pre.cap_lmt_offset + 8 + 4 * last.lane
             /\ IF last.io[1].data = -1
                THEN Len(last.io) = 1 /\ Truthy(last.ret.error)
                ELSE /\ Len(last.io) = 2
                     /\ last.io[2].op = "write"
                     /\ last.io[2].address = last.io[1].address
                     /\ last.io[2].data \in 0 .. 65535
                     /\ Bits(last.io[2].data, 0, 3) = last.args.receiver_number % 8
                     /\ Bits(last.io[2].data, 3, 3) = last.args.type % 8
                     /\ Bits(last.io[2].data, 6, 1) = last.args.usage_model % 2
                     /\ Bits(last.io[2].data, 7, 1) = Bits(last.io[1].data, 7, 1)
                     /\ Bits(last.io[2].data, 8, 8) = last.args.payload % 256
       /\ last.op = "decode_margining_lane_status_register" =>
             /\ Len(last.io) = 1
             /\ last.io[1].op = "read"
             /\ last.io[1].address = last.pre.cap_lmt_offset + 10 + 4 * last.lane
             /\ IF last.io[1].data = -1 THEN Truthy(last.ret.error)
                ELSE /\ last.ret.error = None
                     /\ last.ret.receiver_number_status = Bits(last.io[1].data, 0, 3)
                     /\ last.ret.margin_type_status = Bits(last.io[1].data, 3, 3)
                     /\ last.ret.usage_model_status = Bits(last.io[1].data, 6, 1)
                     /\ last.ret.margin_payload_status = Bits(last.io[1].data, 8, 8)

\* A write on lane 1 with every argument wider than its field, to a
\* register whose reserved bit reads 1.
C31_Witness ==
    /\ pc = "returned"
    /\ last.op = "write_margining_lane_control_register"
    /\ last.lane = 1
    /\ last.args.receiver_number = 9 /\ last.args.payload = 412
    /\ Len(last.io) = 2
    /\ Bits(last.io[1].data, 7, 1) = 1
    /\ last.io[2].data = 1 + 7 * 8 + 64 + 128 + 156 * 256
    /\ last.ret.error = None

\* The directional step-margin calls on a Receiver with independent
\* directions, and the payload byte of the command they wrote.
Directional ==
    /\ pc = "returned"
    /\ \/ /\ last.op = "step_margin_timing_offset_right_left_of_default"
          /\ Truthy2(last.pre.device_info.ind_left_right_timing)
       \/ /\ last.op = "step_margin_voltage_offset_up_down_of_default"
          /\ Truthy2(last.pre.device_info.ind_up_down_voltage)
    /\ Sound(last.pre, last.lane)
Direction(mt) == IF mt \in {"TIMING_LEFT", "VOLTAGE_DOWN"} THEN 1 ELSE 0
StepWrites ==
    {i \in DOMAIN last.io : last.io[i].op = "write" /\ Bits(last.io[i].data, 3, 3) \in {3, 4}}
OnTheWire(mt, steps) == (IF Direction(mt) = 1 THEN BitOr64(steps) ELSE steps) % 256

\* C32: a directional step-margin command with step value s writes a payload
\* byte whose bit 6 is the direction (0 right / up, 1 left / down) and whose
\* step field is s, so no request of another direction or step count puts
\* the same payload on the wire.
C32_PayloadTellsDirectionAndSteps ==
    Directional =>
       \A i \in StepWrites :
          LET payload == Bits(last.io[i].data, 8, 8) IN
          /\ Bits(payload, 6, 1) = Direction(last.args.margin_type)
          /\ Bits(payload, 0, 6) = last.args.steps
          /\ \A mt \in {last.args.margin_type} \cup
                       (IF last.op = "step_margin_timing_offset_right_left_of_default"
                        THEN {"TIMING_RIGHT", "TIMING_LEFT"} ELSE {"VOLTAGE_UP", "VOLTAGE_DOWN"}) :
             \A steps \in StepValues :
                (mt # last.args.margin_type \/ steps # last.args.steps) => OnTheWire(mt, steps) # payload

\* The same for the step values below 64.
PayloadOfSixBitSteps ==
    (Directional /\ last.args.steps < 64) =>
       \A i \in StepWrites :
          LET payload == Bits(last.io[i].data, 8, 8) IN
          /\ Bits(payload, 6, 1) = Direction(last.args.margin_type)
          /\ Bits(payload, 0, 6) = last.args.steps
          /\ \A mt \in {"TIMING_RIGHT", "TIMING_LEFT", "VOLTAGE_UP", "VOLTAGE_DOWN"} :
             \A steps \in {n \in StepValues : n < 64} :
                (Direction(mt) # Direction(last.args.margin_type) \/ steps # last.args.steps)
                   => OnTheWire(mt, steps) # payload

\* A step of 6 to the left written as 0x46.
SixStepsLeft ==
    /\ Directional /\ last.args.steps = 6 /\ last.args.margin_type = "TIMING_LEFT"
    /\ \E i \in StepWrites : Bits(last.io[i].data, 8, 8) = 70

----------------------------------------------------------------------------
(* Properties of the receiver numbers.                                     *)

RangeChecked ==
    {"fetch_margin_control_capabilities", "set_error_count_limit", "goto_normal_settings",
     "step_margin_timing_offset_right_left_of_default"}
OutOfRange(op, rn) == IF op = "goto_normal_settings" THEN rn \notin 0 .. 6 ELSE rn \notin 1 .. 6
RangeCheckedCall == pc = "returned" /\ last.op \in RangeChecked /\ Sound(last.pre, last.lane)

BadReceiverEndsBeforeIo ==
    (/\ pc = "returned" /\ last.op # "none"
     /\ Sound(last.pre, last.lane)
     /\ last.args.receiver_number \in {0, 7}
     /\ ~(last.args.receiver_number = 0
          /\ last.op \in {"goto_normal_settings", "clear_error_log", "GotoNormalSettings", "ClearErrorLog"}))
       => /\ last.io = <<>>
          /\ Truthy(last.ret.error)
          /\ device_list[last.d].lane_errors[last.lane] = last.ret.error

----------------------------------------------------------------------------
(* Properties of a group with a faulty device among healthy ones.          *)

MixedGroup ==
    /\ \E d \in DOMAIN device_list : DeviceFault(device_list[d])
    /\ \E d \in DOMAIN device_list : ~DeviceFault(device_list[d])

\* C34: the run of a group that holds a device with a device_error together
\* with healthy devices ends without an exception, and its results hold a
\* LaneResult for every lane of every healthy device.
C34_FaultyDeviceIsOnlyExcluded ==
    (RunOver /\ MixedGroup) =>
       /\ pc = "done"
       /\ run.exc = None
       /\ \A d \in DOMAIN device_list :
             ~DeviceFault(device_list[d]) =>
                \A l \in LinkLanes(d) :
                   \E i \in 1 .. Len(run.results) : run.results[i].d = d /\ run.results[i].lane = l

\* Every run of such a group ends by an exception with no result.
MixedGroupEndsTheRun ==
    (RunOver /\ MixedGroup) => pc = "crashed" /\ run.exc # None /\ run.results = <<>>

----------------------------------------------------------------------------
(* Properties of the measurement of a VOLTAGE group.                       *)

VoltageRunOfPrimed ==
    /\ RunOver
    /\ run.voltage_or_timing = "VOLTAGE"
    /\ \E d \in DOMAIN device_list : ~DeviceFault(device_list[d]) /\ device_list[d].primed

\* C35: the run of a VOLTAGE group ends with, for every lane of every primed
\* device, a step-margin command carrying the configured step and direction
\* written, FetchSampleCount called after it, and a LaneResult whose
\* margin_type is voltage_up or voltage_down as the direction says.
C35_VoltageIsMeasured ==
    VoltageRunOfPrimed =>
       /\ pc = "done"
       /\ \A d \in DOMAIN device_list :
             (~DeviceFault(device_list[d]) /\ device_list[d].primed) =>
                \A l \in LinkLanes(d) :
                   /\ \E i, j \in DOMAIN run.log :
                         /\ i < j
                         /\ run.log[i].op = "StepMargin" /\ run.log[i].d = d /\ run.log[i].lane = l
                         /\ (run.steps + 64 * run.up_down) \in run.log[i].payloads
                         /\ run.log[j].op = "FetchSampleCount" /\ run.log[j].d = d /\ run.log[j].lane = l
                   /\ \E i \in 1 .. Len(run.results) :
                         /\ run.results[i].d = d /\ run.results[i].lane = l
                         /\ run.results[i].margin_type = (IF run.up_down = 0 THEN "voltage_up" ELSE "voltage_down")

\* Every VOLTAGE run that primed a device ends by an exception, which is
\* AttributeError when the run got as far as the measurement, with no
\* step-margin command written and no result.
VoltageRunEndsByAttributeError ==
    VoltageRunOfPrimed =>
       /\ pc = "crashed" /\ run.exc # None
       /\ (\E i \in DOMAIN run.log : run.log[i].op = "sleep") => run.exc = "AttributeError"
       /\ run.results = <<>>
       /\ \A i \in DOMAIN run.log : run.log[i].op # "StepMargin"

\* A VOLTAGE run over PCIe_LMT that slept the dwell time and then ended at
\* the first step-margin call.
VoltageRunReachedTheMeasurement ==
    /\ VoltageRunOfPrimed /\ run.cls = "PCIe_LMT"
    /\ \E i \in DOMAIN run.log : run.log[i].op = "sleep"
    /\ run.exc = "AttributeError"

----------------------------------------------------------------------------
(* Properties of the operations beside a Receiver of its own pace.         *)

\* C36: when a Fetch, SetErrorCountLimit, GotoNormalSettings or
\* ClearErrorLog operation returns success, the status it decoded was the
\* Receiver's answer to the command this operation wrote, not an answer to
\* an earlier write.
C36_DecodedStatusAnswersTheCommand ==
    (pc = "returned" /\ run.outcome = "success") => run.decoded = run.written

\* The same as long as no operation was called with receiver number 0.
FreshWithoutBroadcast ==
    (pc = "returned" /\ run.outcome = "success" /\ ~run.broadcast) => run.decoded = run.written

\* An operation that succeeded on the answer to its own command after both
\* loops had to wait.
WaitedAndFresh ==
    /\ pc = "returned" /\ run.outcome = "success" /\ ~run.broadcast
    /\ run.calls = 2 /\ run.polls > 0
    /\ run.decoded = run.written

----------------------------------------------------------------------------
(* Properties of the priming.                                              *)

\* The commands of the eight sub-fetches of FetchMarginControlCapabilities.
SubFetches == 137 .. 144

\* The state right after infoLaneMarginOnDeviceList has primed device d.
JustPrimed(d) ==
    /\ run.log # <<>>
    /\ run.log[Len(run.log)].op = "FetchMarginControlCapabilities"
    /\ run.log[Len(run.log)].d = d
    /\ device_list[d].primed

\* C37: when a device is primed, lane 0 of it holds no cached fault, and
\* every sub-fetch of the FetchMarginControlCapabilities call that primed it
\* wrote its command and returned without a fault.
C37_PrimedMeansEverySubFetchSucceeded ==
    \A d \in DOMAIN device_list :
       JustPrimed(d) =>
          /\ ~Truthy(device_list[d].lane_errors[0])
          /\ run.log[Len(run.log)].faults = <<>>
          /\ SubFetches \subseteq run.log[Len(run.log)].payloads

\* The same when the hardware answers every access.
PrimedOnQuietHardware ==
    \A d \in DOMAIN device_list :
       (JustPrimed(d) /\ run.quiet) =>
          /\ ~Truthy(device_list[d].lane_errors[0])
          /\ run.log[Len(run.log)].faults = <<>>
          /\ SubFetches \subseteq run.log[Len(run.log)].payloads

\* A device primed on quiet hardware.
PrimedQuietly == \E d \in DOMAIN device_list : JustPrimed(d) /\ run.quiet

----------------------------------------------------------------------------
(* Properties of termination.                                              *)

\* C38: with the clock advancing and every accessor call returning, every
\* run of collectLmtOnBDFs over its devices and lanes that reaches its end
\* has returned its result list: no run ends otherwise than by its return.
C38_RunReturnsItsResults == RunOver => pc = "done"

\* The same of the behaviours of the one thread: every run returns.
RunEventuallyReturns == <>(pc = "done")

\* Every run comes to an end, by its return or by an exception.
RunComesToAnEnd == <>RunOver

\* Every engine operation ends after a bounded number of register accesses,
\* whatever the Lane Status register shows: each of the at most nine commands
\* of an operation has its No Command handshake and its own loop.
MaxAccesses == 9 * 2 * (MaxPolls + 4)
FinitelyManyAccesses ==
    (pc = "returned" /\ last.op # "none") => Len(last.io) <= MaxAccesses

----------------------------------------------------------------------------
(* Properties of OcptvReporter.                                            *)

\* C39: the reporter has an open step exactly while the caller is inside a
\* step scope, and then one only; start_step while a step is open raises
\* and leaves the reporter as it was; write while no step is open raises
\* and records no measurement; when a scope is left, normally or by any
\* exception, no step is open, and a start_step with no step open opens one.
C39_AtMostOneOpenStep ==
    /\ [](
          /\ (pc = "outside") => (run.rep.step = 0)
          /\ (pc = "inside") => (/\ run.rep.step \in 1 .. Len(run.rep.steps)
                                 /\ run.rep.steps[run.rep.step].status = "RUNNING")
          /\ \A i \in 1 .. Len(run.rep.measurements) :
                run.rep.steps[run.rep.measurements[i].step].name \in {"Rcvr1_Step6", "Rcvr1_Step7"})
    /\ [][
           /\ (last'.op = "start_step" /\ run.rep.step # 0) =>
                (last'.exc = "RuntimeError" /\ run'.rep = run.rep /\ pc' = pc)
           /\ (last'.op = "start_step" /\ run.rep.step = 0) =>
                (/\ last'.exc = None /\ pc' = "inside"
                 /\ run'.rep.step = Len(run.rep.steps) + 1
                 /\ Len(run'.rep.steps) = Len(run.rep.steps) + 1)
           /\ (last'.op = "write" /\ run.rep.step = 0) =>
                (last'.exc = "RuntimeError" /\ run'.rep = run.rep)
           /\ (last'.op = "write" /\ run.rep.step # 0) =>
                (/\ last'.exc = None
                 /\ Len(run'.rep.measurements) = Len(run.rep.measurements) + 1
                 /\ run'.rep.measurements[Len(run'.rep.measurements)].step = run.rep.step)
           /\ (last'.op = "exit") => (run'.rep.step = 0 /\ pc' = "outside")]_vars

\* A step opened after the scope of the step before was left by an
\* exception that is no TestStepError.
C39_Witness ==
    /\ pc = "inside"
    /\ last.op = "start_step" /\ last.exc = None
    /\ run.rep.step = 2
    /\ run.rep.steps[1].status = "RUNNING"

\* start_step refused inside a scope, and write refused outside.
RefusedInsideAndOutside ==
    \/ pc = "inside" /\ last.op = "start_step" /\ last.exc = "RuntimeError"
    \/ pc = "outside" /\ last.op = "write" /\ last.exc = "RuntimeError"

----------------------------------------------------------------------------
(* Properties of the construction over an extended capability list that    *)
(* cannot be read.                                                         *)

\* A read of the traversal of the extended capability list has failed: the
\* entry decode_extended_capability makes of it is recorded under id None.
ExtendedReadFailed == NoId \in DOMAIN run.ext_cap_dict

\* self.device_error as PcieDeviceLaneMargining.__init__ sets it from what
\* get_link_status() and get_lmt_cap_info() have returned, once it returns.
device_error_of_init ==
    IF pc # "returned" THEN None
    ELSE IF run.link_status[1].err_msg # None THEN "Link down or device not present"
    ELSE IF run.link_status[1].width \notin {1, 2, 4, 8, 16, 32, 64} THEN "Unsupported Link width"
    ELSE IF run.link_status[1].speed_gts \notin {"16GT/s", "32GT/s", "64GT/s"}
         THEN "Unsupported link speed"
    ELSE IF run.lmt_cap_info[1].err_msg # None THEN "Lane Margining unsupported"
    ELSE None

\* C40: when a read fails while the extended capability list is traversed,
\* the traversal stops, get_lmt_cap_info returns an error result and the
\* construction ends with device_error 'Lane Margining unsupported'; it
\* does not end by an exception.
C40_FailedReadGivesDeviceError ==
    /\ ExtendedReadFailed => pc # "raised"
    /\ (ExtendedReadFailed /\ TraversalOver) =>
          /\ Len(run.lmt_cap_info) = 1
          /\ run.lmt_cap_info[1].err_msg # None
          /\ device_error_of_init = "Lane Margining unsupported"

\* What the construction does instead: after a failed read of the extended
\* list the loop goes on with offset_next None and the construction ends by
\* TypeError, get_lmt_cap_info having returned nothing and device_error
\* being unset; it never returns.
FailedExtendedReadRaises ==
    ExtendedReadFailed =>
        /\ pc \in {"create_dict_extended_capabilities", "raised"}
        /\ run.lmt_cap_info = <<>>
        /\ device_error_of_init = None
        /\ pc = "raised" => run.exc = "TypeError"

\* A construction ended by TypeError after the read of the second extended
\* capability failed, the first having been decoded.
SecondExtendedReadFailed ==
    /\ pc = "raised" /\ run.exc = "TypeError"
    /\ ExtendedReadFailed
    /\ Cardinality(DOMAIN run.ext_cap_dict) = 2

\* The error result of get_lmt_cap_info where it is returned: every read of
\* the extended list succeeded and none of its entries has id 0x27.
LaneMarginingUnsupported ==
    /\ pc = "returned"
    /\ ~ExtendedReadFailed
    /\ run.ext_cap_keys # <<>>
    /\ device_error_of_init = "Lane Margining unsupported"

====
